---- MODULE Spec2Model ----
(***************************************************************************)
(* The consistency test of CodeDD: a model's free-text answer to the audit *)
(* rubric is parsed into a row of scores (run_test/ai_auditor.py,          *)
(* run_test/ai_auditor_num.py, run_test/score_mappings.py), the rows of    *)
(* all cycles are collected (run_test.py) and the spread of the repeated   *)
(* scores is analysed (run_test/audit_scoring.py).                         *)
(*                                                                         *)
(* A Python str is a sequence of one-character strings, so that strip,     *)
(* split, startswith, lower and re.sub are computed character by           *)
(* character.  A Python float is an exact fraction <<n, d>> in lowest      *)
(* terms; <<0, 0>> stands for the ZeroDivisionError a division by zero     *)
(* raises.  Python values of different types are told apart by a tag t.    *)
(***************************************************************************)
EXTENDS Integers, Sequences, FiniteSets, TLC

VARIABLES
    mode,           \* "textual" (AIAuditor) or "numerical" (AIAuditorNum, --alt)
    model_number,   \* args.model: 1 for Anthropic, 2 for OpenAI
    response_text,  \* the raw answer handed to the parsers
    audit_data,     \* what _parse_audit_response made of response_text
    parsed,         \* what parse_audit_response made of response_text
    score,          \* a call of get_score: attribute, value, and what it returned
    cycle,          \* the cycle main_async is running, 1-based
    results,        \* asyncio.gather's slots of the running cycle, one per file
    all_results,    \* rows collected for the deviation analysis
    csv_rows,       \* rows written by csv.DictWriter
    row_source,     \* history: the answer each row of all_results was built from
    deviations,     \* the report of calculate_deviations, once computed
    pc,             \* where main_async stands
    is_valid,       \* what is_audit_data_valid made of parsed
    semaphore,      \* free slots of the auditor's asyncio.Semaphore
    calls,          \* the audit_content calls of the running cycle: position, attempt
    deviation_file  \* the deviation file of the run: assigned or not, and what was written

vars == <<mode, model_number, response_text, audit_data, parsed, score, cycle, results,
          all_results, csv_rows, row_source, deviations, pc, is_valid, semaphore, calls,
          deviation_file>>

---------------------------------------------------------------------------
(* Python values *)

PyNone == [t |-> "NoneType"]
PyInt(i) == [t |-> "int", i |-> i]
PyFloat(q) == [t |-> "float", q |-> q]
PyStr(s) == [t |-> "str", s |-> s]

---------------------------------------------------------------------------
(* str methods *)

Whitespace == {" ", "\t", "\r"}

Digits == <<"0", "1", "2", "3", "4", "5", "6", "7", "8", "9">>

IsDigit(c) == \E i \in 1..10 : Digits[i] = c

DigitValue(c) == (CHOOSE i \in 1..10 : Digits[i] = c) - 1

UpperCase ==
    <<"A", "B", "C", "D", "E", "F", "G", "H", "I", "J", "K", "L", "M",
      "N", "O", "P", "Q", "R", "S", "T", "U", "V", "W", "X", "Y", "Z">>

LowerCase ==
    <<"a", "b", "c", "d", "e", "f", "g", "h", "i", "j", "k", "l", "m",
      "n", "o", "p", "q", "r", "s", "t", "u", "v", "w", "x", "y", "z">>

lower_char(c) ==
    IF \E i \in 1..26 : UpperCase[i] = c
    THEN LowerCase[CHOOSE i \in 1..26 : UpperCase[i] = c]
    ELSE c

lower(s) == [i \in 1..Len(s) |-> lower_char(s[i])]

startswith(s, prefix) ==
    /\ Len(prefix) <= Len(s)
    /\ \A i \in 1..Len(prefix) : s[i] = prefix[i]

\* s with every character of the set chars removed: chained str.replace(c, "")
remove_chars(s, chars) == SelectSeq(s, LAMBDA c : c \notin chars)

RECURSIVE lstrip(_)
lstrip(s) ==
    IF s # <<>> /\ Head(s) \in Whitespace THEN lstrip(Tail(s)) ELSE s

RECURSIVE rstrip_chars(_, _)
rstrip_chars(s, chars) ==
    IF s # <<>> /\ s[Len(s)] \in chars
    THEN rstrip_chars(SubSeq(s, 1, Len(s) - 1), chars)
    ELSE s

strip(s) == rstrip_chars(lstrip(s), Whitespace)

\* index of the first occurrence of character c in s, 0 when there is none
find_char(s, c) ==
    IF \E i \in 1..Len(s) : s[i] = c
    THEN CHOOSE i \in 1..Len(s) : s[i] = c /\ \A j \in 1..(i - 1) : s[j] # c
    ELSE 0

\* s.split(sep, 1): one part when sep does not occur, two otherwise
split_once(s, sep) ==
    LET i == find_char(s, sep)
    IN  IF i = 0 THEN <<s>>
        ELSE <<SubSeq(s, 1, i - 1), SubSeq(s, i + 1, Len(s))>>

\* s.split(sep): every part, empty ones included
RECURSIVE split(_, _)
split(s, sep) ==
    LET i == find_char(s, sep)
    IN  IF i = 0 THEN <<s>>
        ELSE <<SubSeq(s, 1, i - 1)>> \o split(SubSeq(s, i + 1, Len(s)), sep)

\* s.split(): the maximal runs of non-whitespace characters
RECURSIVE split_whitespace(_)
split_whitespace(s) ==
    LET t == lstrip(s)
        n == IF \E i \in 1..Len(t) : t[i] \in Whitespace
             THEN (CHOOSE i \in 1..Len(t) :
                      t[i] \in Whitespace /\ \A j \in 1..(i - 1) : t[j] \notin Whitespace) - 1
             ELSE Len(t)
    IN  IF t = <<>> THEN <<>>
        ELSE <<SubSeq(t, 1, n)>> \o split_whitespace(SubSeq(t, n + 1, Len(t)))

\* sep.join(words)
RECURSIVE join(_, _)
join(sep, words) ==
    IF words = <<>> THEN <<>>
    ELSE IF Len(words) = 1 THEN words[1]
    ELSE words[1] \o sep \o join(sep, Tail(words))

\* sub in s
contains(s, sub) ==
    \E i \in 0..(Len(s) - Len(sub)) : SubSeq(s, i + 1, i + Len(sub)) = sub

---------------------------------------------------------------------------
(* float arithmetic, exact *)

Abs(x) == IF x < 0 THEN -x ELSE x

RECURSIVE GCD(_, _)
GCD(a, b) == IF b = 0 THEN a ELSE GCD(b, a % b)

ZeroDivisionError == <<0, 0>>

\* the fraction n/d in lowest terms with a positive denominator
Frac(n, d) ==
    IF d = 0 THEN ZeroDivisionError
    ELSE LET g == GCD(Abs(n), Abs(d))
             sgn == IF d < 0 THEN -1 ELSE 1
         IN  <<(sgn * n) \div g, (sgn * d) \div g>>

FromInt(i) == <<i, 1>>

Raised(q) == q[2] = 0

FAdd(a, b) ==
    IF Raised(a) \/ Raised(b) THEN ZeroDivisionError
    ELSE Frac(a[1] * b[2] + b[1] * a[2], a[2] * b[2])

FSub(a, b) ==
    IF Raised(a) \/ Raised(b) THEN ZeroDivisionError
    ELSE Frac(a[1] * b[2] - b[1] * a[2], a[2] * b[2])

FMul(a, b) ==
    IF Raised(a) \/ Raised(b) THEN ZeroDivisionError
    ELSE Frac(a[1] * b[1], a[2] * b[2])

\* a / b, which raises when b is 0
FDiv(a, b) ==
    IF Raised(a) \/ Raised(b) \/ b[1] = 0 THEN ZeroDivisionError
    ELSE Frac(a[1] * b[2], a[2] * b[1])

FAbs(a) == <<Abs(a[1]), a[2]>>

FLess(a, b) == a[1] * b[2] < b[1] * a[2]

\* round(x, 2): to the nearest hundredth.  A value halfway between two
\* hundredths is no binary float: round sees the float nearest to it, which
\* lies below or above the half, and ties_up says which
round2(a, ties_up) ==
    IF Raised(a) THEN ZeroDivisionError
    ELSE LET y == 100 * a[1]
             fl == y \div a[2]
             twice == 2 * (y - fl * a[2])
             k == IF twice > a[2] \/ (twice = a[2] /\ ties_up) THEN fl + 1 ELSE fl
         IN  Frac(k, 100)

\* int(x) of a float: truncation towards zero
int_of_float(a) ==
    IF a[1] >= 0 THEN a[1] \div a[2] ELSE -((-a[1]) \div a[2])

RECURSIVE sum_ints(_)
sum_ints(values) ==
    IF values = <<>> THEN 0 ELSE Head(values) + sum_ints(Tail(values))

RECURSIVE sum_floats(_)
sum_floats(values) ==
    IF values = <<>> THEN FromInt(0) ELSE FAdd(Head(values), sum_floats(Tail(values)))

RECURSIVE max_ints(_)
max_ints(values) ==
    IF Len(values) = 1 THEN values[1]
    ELSE LET m == max_ints(Tail(values))
         IN  IF Head(values) >= m THEN Head(values) ELSE m

RECURSIVE min_ints(_)
min_ints(values) ==
    IF Len(values) = 1 THEN values[1]
    ELSE LET m == min_ints(Tail(values))
         IN  IF Head(values) <= m THEN Head(values) ELSE m

RECURSIVE digits_value(_)
digits_value(s) ==
    IF s = <<>> THEN 0
    ELSE 10 * digits_value(SubSeq(s, 1, Len(s) - 1)) + DigitValue(s[Len(s)])

RECURSIVE power_of_ten(_)
power_of_ten(k) == IF k = 0 THEN 1 ELSE 10 * power_of_ten(k - 1)

\* float(s) accepts a string of digits and dots when it holds a digit and at
\* most one dot; otherwise it raises ValueError
float_accepts(s) ==
    /\ \E i \in 1..Len(s) : IsDigit(s[i])
    /\ Cardinality({i \in 1..Len(s) : s[i] = "."}) <= 1

float_of_str(s) ==
    LET dot == find_char(s, ".")
        frac_digits == IF dot = 0 THEN 0 ELSE Len(s) - dot
    IN  Frac(digits_value(remove_chars(s, {"."})), power_of_ten(frac_digits))

---------------------------------------------------------------------------
(* dict *)

EmptyDict == << >>

\* d[k] = v
Put(d, k, v) == (k :> v) @@ d

\* d.get(k, default)
Get(d, k, default) == IF k \in DOMAIN d THEN d[k] ELSE default

---------------------------------------------------------------------------
(* run_test/score_mappings.py *)

SCORE_MAPPINGS ==
  [
    readability |->
      << << <<"h", "i", "g", "h", "l", "y", " ", "r", "e", "a", "d", "a", "b", "l", "e">>, 100 >>,
         << <<"m", "o", "d", "e", "r", "a", "t", "e", "l", "y", " ", "r", "e", "a", "d", "a", "b", "l", "e">>, 50 >>,
         << <<"l", "o", "w", " ", "r", "e", "a", "d", "a", "b", "i", "l", "i", "t", "y">>, 0 >> >>,
    consistency |->
      << << <<"h", "i", "g", "h", "l", "y", " ", "c", "o", "n", "s", "i", "s", "t", "e", "n", "t">>, 100 >>,
         << <<"s", "o", "m", "e", "w", "h", "a", "t", " ", "i", "n", "c", "o", "n", "s", "i", "s", "t", "e", "n", "t">>, 50 >>,
         << <<"n", "o", "t", " ", "c", "o", "n", "s", "i", "s", "t", "e", "n", "t">>, 0 >> >>,
    modularity |->
      << << <<"e", "x", "c", "e", "l", "l", "e", "n", "t">>, 100 >>,
         << <<"a", "v", "e", "r", "a", "g", "e">>, 50 >>,
         << <<"p", "o", "o", "r">>, 0 >> >>,
    maintainability |->
      << << <<"h", "i", "g", "h">>, 100 >>,
         << <<"m", "o", "d", "e", "r", "a", "t", "e">>, 50 >>,
         << <<"l", "o", "w">>, 0 >> >>,
    reusability |->
      << << <<"h", "i", "g", "h">>, 100 >>,
         << <<"m", "o", "d", "e", "r", "a", "t", "e">>, 50 >>,
         << <<"l", "o", "w">>, 0 >> >>,
    redundancy |->
      << << <<"n", "o", " ", "r", "e", "d", "u", "n", "d", "a", "n", "c", "i", "e", "s">>, 100 >>,
         << <<"s", "o", "m", "e", " ", "r", "e", "d", "u", "n", "d", "a", "n", "c", "i", "e", "s">>, 50 >>,
         << <<"h", "i", "g", "h", " ", "r", "e", "d", "u", "n", "d", "a", "n", "c", "y">>, 0 >> >>,
    technical_debt |->
      << << <<"n", "o", "n", "e">>, 100 >>,
         << <<"l", "o", "w">>, 66 >>,
         << <<"m", "o", "d", "e", "r", "a", "t", "e">>, 33 >>,
         << <<"h", "i", "g", "h">>, 0 >> >>,
    code_smells |->
      << << <<"n", "o", "n", "e">>, 100 >>,
         << <<"l", "o", "w">>, 66 >>,
         << <<"m", "o", "d", "e", "r", "a", "t", "e">>, 33 >>,
         << <<"h", "i", "g", "h">>, 0 >> >>,
    completeness |->
      << << <<"f", "u", "l", "l", "y", " ", "f", "u", "n", "c", "t", "i", "o", "n", "a", "l">>, 100 >>,
         << <<"p", "a", "r", "t", "i", "a", "l", "l", "y", " ", "f", "u", "n", "c", "t", "i", "o", "n", "a", "l">>, 50 >>,
         << <<"n", "o", "t", " ", "f", "u", "n", "c", "t", "i", "o", "n", "a", "l">>, 0 >> >>,
    edge_cases |->
      << << <<"e", "x", "c", "e", "l", "l", "e", "n", "t", "l", "y", " ", "c", "o", "v", "e", "r", "e", "d">>, 100 >>,
         << <<"p", "a", "r", "t", "i", "a", "l", "l", "y", " ", "c", "o", "v", "e", "r", "e", "d">>, 66 >>,
         << <<"p", "o", "o", "r", "l", "y", " ", "c", "o", "v", "e", "r", "e", "d">>, 33 >>,
         << <<"n", "o", "n", "e", " ", "c", "o", "v", "e", "r", "e", "d">>, 0 >> >>,
    error_handling |->
      << << <<"r", "o", "b", "u", "s", "t">>, 100 >>,
         << <<"a", "d", "e", "q", "u", "a", "t", "e">>, 50 >>,
         << <<"p", "o", "o", "r">>, 0 >> >>,
    efficiency |->
      << << <<"h", "i", "g", "h">>, 100 >>,
         << <<"a", "v", "e", "r", "a", "g", "e">>, 50 >>,
         << <<"p", "o", "o", "r">>, 0 >> >>,
    scalability |->
      << << <<"h", "i", "g", "h">>, 100 >>,
         << <<"m", "o", "d", "e", "r", "a", "t", "e">>, 50 >>,
         << <<"n", "o", "t", " ", "s", "c", "a", "l", "a", "b", "l", "e">>, 0 >> >>,
    resource_utilization |->
      << << <<"o", "p", "t", "i", "m", "a", "l">>, 100 >>,
         << <<"a", "c", "c", "e", "p", "t", "a", "b", "l", "e">>, 50 >>,
         << <<"e", "x", "c", "e", "s", "s", "i", "v", "e">>, 0 >> >>,
    load_handling |->
      << << <<"e", "x", "c", "e", "l", "l", "e", "n", "t">>, 100 >>,
         << <<"g", "o", "o", "d">>, 66 >>,
         << <<"a", "v", "e", "r", "a", "g", "e">>, 33 >>,
         << <<"p", "o", "o", "r">>, 0 >> >>,
    parallel_processing |->
      << << <<"f", "u", "l", "l", "y", " ", "s", "u", "p", "p", "o", "r", "t", "e", "d">>, 100 >>,
         << <<"p", "a", "r", "t", "i", "a", "l", "l", "y", " ", "s", "u", "p", "p", "o", "r", "t", "e", "d">>, 50 >>,
         << <<"n", "o", "t", " ", "s", "u", "p", "p", "o", "r", "t", "e", "d">>, 0 >>,
         << <<"n", "o", "t", " ", "r", "e", "q", "u", "i", "r", "e", "d">>, 100 >> >>,
    database_interaction_efficiency |->
      << << <<"o", "p", "t", "i", "m", "i", "z", "e", "d">>, 100 >>,
         << <<"s", "u", "f", "f", "i", "c", "i", "e", "n", "t">>, 50 >>,
         << <<"i", "n", "e", "f", "f", "i", "c", "i", "e", "n", "t">>, 0 >>,
         << <<"n", "o", "t", " ", "r", "e", "q", "u", "i", "r", "e", "d">>, 100 >> >>,
    concurrency_management |->
      << << <<"r", "o", "b", "u", "s", "t">>, 100 >>,
         << <<"a", "d", "e", "q", "u", "a", "t", "e">>, 50 >>,
         << <<"p", "o", "o", "r">>, 0 >>,
         << <<"n", "o", "t", " ", "r", "e", "q", "u", "i", "r", "e", "d">>, 100 >> >>,
    state_management_efficiency |->
      << << <<"o", "p", "t", "i", "m", "a", "l">>, 100 >>,
         << <<"a", "d", "e", "q", "u", "a", "t", "e">>, 50 >>,
         << <<"p", "r", "o", "b", "l", "e", "m", "a", "t", "i", "c">>, 0 >>,
         << <<"n", "o", "t", " ", "r", "e", "q", "u", "i", "r", "e", "d">>, 100 >> >>,
    modularity_decoupling |->
      << << <<"h", "i", "g", "h", "l", "y", " ", "m", "o", "d", "u", "l", "a", "r">>, 100 >>,
         << <<"s", "o", "m", "e", "w", "h", "a", "t", " ", "m", "o", "d", "u", "l", "a", "r">>, 50 >>,
         << <<"m", "o", "n", "o", "l", "i", "t", "h", "i", "c">>, 0 >> >>,
    configuration_customization_ease |->
      << << <<"f", "l", "e", "x", "i", "b", "l", "e">>, 100 >>,
         << <<"m", "o", "d", "e", "r", "a", "t", "e">>, 50 >>,
         << <<"r", "i", "g", "i", "d">>, 0 >> >>,
    input_validation |->
      << << <<"s", "t", "r", "o", "n", "g">>, 100 >>,
         << <<"a", "d", "e", "q", "u", "a", "t", "e">>, 50 >>,
         << <<"w", "e", "a", "k">>, 0 >>,
         << <<"n", "o", "t", " ", "r", "e", "q", "u", "i", "r", "e", "d">>, 100 >> >>,
    data_handling |->
      << << <<"s", "e", "c", "u", "r", "e">>, 100 >>,
         << <<"m", "o", "d", "e", "r", "a", "t", "e", "l", "y", " ", "s", "e", "c", "u", "r", "e">>, 50 >>,
         << <<"i", "n", "s", "e", "c", "u", "r", "e">>, 0 >>,
         << <<"n", "o", "t", " ", "r", "e", "q", "u", "i", "r", "e", "d">>, 100 >> >>,
    authentication |->
      << << <<"r", "o", "b", "u", "s", "t">>, 100 >>,
         << <<"a", "d", "e", "q", "u", "a", "t", "e">>, 50 >>,
         << <<"n", "o", "n", "-", "e", "x", "i", "s", "t", "e", "n", "t">>, 0 >>,
         << <<"n", "o", "t", " ", "r", "e", "q", "u", "i", "r", "e", "d">>, 100 >> >>,
    independence |->
      << << <<"m", "u", "l", "t", "i", "-", "p", "l", "a", "t", "f", "o", "r", "m">>, 100 >>,
         << <<"l", "i", "m", "i", "t", "e", "d", " ", "p", "l", "a", "t", "f", "o", "r", "m", "s">>, 50 >>,
         << <<"s", "i", "n", "g", "l", "e", " ", "p", "l", "a", "t", "f", "o", "r", "m">>, 25 >> >>,
    integration |->
      << << <<"s", "e", "a", "m", "l", "e", "s", "s">>, 100 >>,
         << <<"r", "e", "q", "u", "i", "r", "e", "s", " ", "w", "o", "r", "k", "a", "r", "o", "u", "n", "d", "s">>, 50 >>,
         << <<"i", "n", "c", "o", "m", "p", "a", "t", "i", "b", "l", "e">>, 0 >> >>,
    inline_comments |->
      << << <<"c", "o", "m", "p", "r", "e", "h", "e", "n", "s", "i", "v", "e">>, 100 >>,
         << <<"a", "d", "e", "q", "u", "a", "t", "e">>, 66 >>,
         << <<"s", "p", "a", "r", "s", "e">>, 33 >>,
         << <<"n", "o", "n", "e">>, 0 >> >>,
    standards |->
      << << <<"f", "u", "l", "l", "y", " ", "c", "o", "m", "p", "l", "i", "a", "n", "t">>, 100 >>,
         << <<"p", "a", "r", "t", "i", "a", "l", "l", "y", " ", "c", "o", "m", "p", "l", "i", "a", "n", "t">>, 50 >>,
         << <<"n", "o", "n", "-", "c", "o", "m", "p", "l", "i", "a", "n", "t">>, 0 >> >>,
    design_patterns |->
      << << <<"e", "x", "t", "e", "n", "s", "i", "v", "e">>, 100 >>,
         << <<"m", "o", "d", "e", "r", "a", "t", "e">>, 66 >>,
         << <<"r", "a", "r", "e">>, 33 >>,
         << <<"n", "o", "n", "e">>, 0 >> >>,
    code_complexity |->
      << << <<"l", "o", "w">>, 100 >>,
         << <<"m", "o", "d", "e", "r", "a", "t", "e">>, 50 >>,
         << <<"h", "i", "g", "h">>, 0 >> >>,
    refactoring_opportunities |->
      << << <<"m", "a", "n", "y">>, 100 >>,
         << <<"s", "o", "m", "e">>, 66 >>,
         << <<"f", "e", "w">>, 33 >>,
         << <<"n", "o", "n", "e">>, 0 >> >>
  ]

\* the score of the first phrase, in the order of the mapping, value starts with
RECURSIVE first_prefix_score(_, _)
first_prefix_score(mapping, value) ==
    IF mapping = <<>> THEN 0
    ELSE IF startswith(value, Head(mapping)[1]) THEN Head(mapping)[2]
    ELSE first_prefix_score(Tail(mapping), value)

\* the score of the phrase the lowercased value equals
get_score_of_equal_phrase(attribute, value) ==
    IF attribute \notin DOMAIN SCORE_MAPPINGS THEN 0
    ELSE LET mapping == SCORE_MAPPINGS[attribute]
             hits == {k \in 1..Len(mapping) : mapping[k][1] = lower(value)}
         IN  IF hits = {} THEN 0 ELSE mapping[CHOOSE k \in hits : TRUE][2]

get_score(attribute, value) ==
    IF attribute \notin DOMAIN SCORE_MAPPINGS THEN 0
    ELSE first_prefix_score(SCORE_MAPPINGS[attribute], lower(value))

---------------------------------------------------------------------------
(* run_test/ai_auditor.py and run_test/ai_auditor_num.py: the parsers *)

\* the float of the cleaned text without the clamp
parse_numerical_value_unclamped(value) ==
    LET cleaned_value == SelectSeq(value, LAMBDA c : IsDigit(c) \/ c = ".")
    IN  IF cleaned_value = <<>> THEN PyNone
        ELSE IF ~float_accepts(cleaned_value) THEN PyNone
        ELSE PyFloat(float_of_str(cleaned_value))

\* the float of the digits alone, the clamp kept
parse_numerical_value_of_digits(value) ==
    LET cleaned_value == SelectSeq(value, LAMBDA c : IsDigit(c))
    IN  IF cleaned_value = <<>> THEN PyNone
        ELSE LET num_value == float_of_str(cleaned_value)
             IN  IF ~FLess(num_value, FromInt(100)) THEN PyInt(100)
                 ELSE IF ~FLess(FromInt(0), num_value) THEN PyInt(0)
                 ELSE PyFloat(num_value)

\* the ValueError of float() handed on instead of caught
parse_numerical_value_uncaught(value) ==
    LET cleaned_value == SelectSeq(value, LAMBDA c : IsDigit(c) \/ c = ".")
    IN  IF cleaned_value = <<>> THEN PyNone
        ELSE IF ~float_accepts(cleaned_value) THEN [t |-> "ValueError"]
        ELSE LET num_value == float_of_str(cleaned_value)
             IN  IF ~FLess(num_value, FromInt(100)) THEN PyInt(100)
                 ELSE IF ~FLess(FromInt(0), num_value) THEN PyInt(0)
                 ELSE PyFloat(num_value)

\* re.sub(r'[^\d.]', '', value), float(), and the clamp max(0, min(100, x)):
\* min and max return their first argument unless the second is strictly
\* smaller (larger), so the bounds come back as the ints 100 and 0
_parse_numerical_value(value) ==
    LET cleaned_value == SelectSeq(value, LAMBDA c : IsDigit(c) \/ c = ".")
    IN  IF cleaned_value = <<>> THEN PyNone
        ELSE IF ~float_accepts(cleaned_value) THEN PyNone
        ELSE LET num_value == float_of_str(cleaned_value)
             IN  IF ~FLess(num_value, FromInt(100)) THEN PyInt(100)
                 ELSE IF ~FLess(FromInt(0), num_value) THEN PyInt(0)
                 ELSE PyFloat(num_value)

\* the if/elif chain of _parse_audit_response: section label, field it fills
section_fields ==
  << << <<"1", ".", "1", ".">>, "domain" >>,
     << <<"2", ".", "1", ".">>, "readability" >>,
     << <<"2", ".", "2", ".">>, "consistency" >>,
     << <<"2", ".", "3", ".">>, "modularity" >>,
     << <<"2", ".", "4", ".">>, "maintainability" >>,
     << <<"2", ".", "5", ".">>, "reusability" >>,
     << <<"2", ".", "6", ".">>, "redundancy" >>,
     << <<"2", ".", "7", ".">>, "technical_debt" >>,
     << <<"2", ".", "8", ".">>, "code_smells" >>,
     << <<"3", ".", "1", ".">>, "completeness" >>,
     << <<"3", ".", "2", ".">>, "edge_cases" >>,
     << <<"3", ".", "3", ".">>, "error_handling" >>,
     << <<"4", ".", "1", ".">>, "efficiency" >>,
     << <<"4", ".", "2", ".">>, "scalability" >>,
     << <<"4", ".", "3", ".">>, "resource_utilization" >>,
     << <<"4", ".", "4", ".">>, "load_handling" >>,
     << <<"4", ".", "5", ".">>, "parallel_processing" >>,
     << <<"4", ".", "6", ".">>, "database_interaction_efficiency" >>,
     << <<"4", ".", "7", ".">>, "concurrency_management" >>,
     << <<"4", ".", "8", ".">>, "state_management_efficiency" >>,
     << <<"4", ".", "9", ".">>, "modularity_decoupling" >>,
     << <<"4", ".", "1", "0", ".">>, "configuration_customization_ease" >>,
     << <<"5", ".", "1", ".">>, "input_validation" >>,
     << <<"5", ".", "2", ".">>, "data_handling" >>,
     << <<"5", ".", "3", ".">>, "authentication" >>,
     << <<"6", ".", "1", ".">>, "independence" >>,
     << <<"6", ".", "2", ".">>, "integration" >>,
     << <<"7", ".", "1", ".">>, "inline_comments" >>,
     << <<"8", ".", "1", ".">>, "standards" >>,
     << <<"8", ".", "2", ".">>, "design_patterns" >>,
     << <<"8", ".", "3", ".">>, "code_complexity" >>,
     << <<"8", ".", "4", ".">>, "refactoring_opportunities" >> >>

\* the branch of the chain key takes: the first whose label key starts with
section_branch(key) ==
    LET hits == {i \in 1..Len(section_fields) : startswith(key, section_fields[i][1])}
    IN  IF hits = {} THEN 0 ELSE CHOOSE i \in hits : \A j \in hits : i <= j

\* what the branch stores: the domain as it stands, a metric through get_score
\* (AIAuditor) or through _parse_numerical_value (AIAuditorNum)
branch_value(m, field, value) ==
    IF field = "domain" THEN PyStr(value)
    ELSE IF m = "textual" THEN PyInt(get_score(field, value))
    ELSE _parse_numerical_value(value)

RECURSIVE parse_lines(_, _, _)
parse_lines(lines, m, data) ==
    IF lines = <<>> THEN data
    ELSE LET line == strip(Head(lines))
         IN  IF line = <<>> \/ find_char(line, ":") = 0
             THEN parse_lines(Tail(lines), m, data)
             ELSE LET parts == split_once(line, ":")
                      key == strip(parts[1])
                      value == strip(parts[2])
                      b == section_branch(key)
                  IN  parse_lines(Tail(lines), m,
                          IF b = 0 THEN data
                          ELSE Put(data, section_fields[b][2],
                                   branch_value(m, section_fields[b][2], value)))

_parse_audit_response(response, m) ==
    parse_lines(split(strip(response), "\n"), m, EmptyDict)

NotApplicable ==
    {<<"n", "a">>, <<"n", "/", "a">>,
     <<"n", "o", "t", " ", "a", "p", "p", "l", "i", "c", "a", "b", "l", "e">>,
     <<"n", "o", "t", " ", "a", "v", "a", "i", "l", "a", "b", "l", "e">>}

sanitize_text(text) ==
    LET sanitized_text == rstrip_chars(remove_chars(text, {"\"", "'", "[", "]"}), {"."})
    IN  IF lower(strip(sanitized_text)) \in NotApplicable
        THEN <<"N", "/", "A">>
        ELSE sanitized_text

\* s without the first occurrence of each character of the sequence chars
RECURSIVE remove_first_of_each(_, _)
remove_first_of_each(s, chars) ==
    IF chars = <<>> THEN s
    ELSE LET i == find_char(s, Head(chars))
         IN  remove_first_of_each(
                 IF i = 0 THEN s ELSE SubSeq(s, 1, i - 1) \o SubSeq(s, i + 1, Len(s)),
                 Tail(chars))

\* the sanitization with replace(c, "", 1): one occurrence of each character
sanitize_domain_once_each(text) ==
    LET cleaned_text == remove_first_of_each(text, <<"(", ")", "'", "\"", ",">>)
        words == split_whitespace(cleaned_text)
    IN  IF Len(words) > 2 THEN join(<<" ">>, SubSeq(words, 1, 2)) ELSE cleaned_text

sanitize_domain(text) ==
    LET cleaned_text == remove_chars(text, {"(", ")", "'", "\"", ","})
        words == split_whitespace(cleaned_text)
    IN  IF Len(words) > 2 THEN join(<<" ">>, SubSeq(words, 1, 2)) ELSE cleaned_text

\* the rubric schema of parse_audit_response: key, section label
schema_mapping ==
  << << "is_script", <<"0", ".">> >>,
     << "is_script_explanation", <<"0", ".", "1", ".">> >>,
     << "domain", <<"1", ".", "1", ".">> >>,
     << "readability", <<"2", ".", "1", ".">> >>,
     << "consistency", <<"2", ".", "2", ".">> >>,
     << "modularity", <<"2", ".", "3", ".">> >>,
     << "maintainability", <<"2", ".", "4", ".">> >>,
     << "reusability", <<"2", ".", "5", ".">> >>,
     << "redundancy", <<"2", ".", "6", ".">> >>,
     << "technical_debt", <<"2", ".", "7", ".">> >>,
     << "code_smells", <<"2", ".", "8", ".">> >>,
     << "completeness", <<"3", ".", "1", ".">> >>,
     << "edge_cases", <<"3", ".", "2", ".">> >>,
     << "error_handling", <<"3", ".", "3", ".">> >>,
     << "efficiency", <<"4", ".", "1", ".">> >>,
     << "scalability", <<"4", ".", "2", ".">> >>,
     << "resource_utilization", <<"4", ".", "3", ".">> >>,
     << "load_handling", <<"4", ".", "4", ".">> >>,
     << "parallel_processing", <<"4", ".", "5", ".">> >>,
     << "database_interaction_efficiency", <<"4", ".", "6", ".">> >>,
     << "concurrency_management", <<"4", ".", "7", ".">> >>,
     << "state_management_efficiency", <<"4", ".", "8", ".">> >>,
     << "modularity_decoupling", <<"4", ".", "9", ".">> >>,
     << "configuration_customization_ease", <<"4", ".", "1", "0", ".">> >>,
     << "input_validation", <<"5", ".", "1", ".">> >>,
     << "data_handling", <<"5", ".", "2", ".">> >>,
     << "authentication", <<"5", ".", "3", ".">> >>,
     << "package_dependencies", <<"5", ".", "4", ".">> >>,
     << "independence", <<"6", ".", "1", ".">> >>,
     << "integration", <<"6", ".", "2", ".">> >>,
     << "inline_comments", <<"7", ".", "1", ".">> >>,
     << "standards", <<"8", ".", "1", ".">> >>,
     << "design_patterns", <<"8", ".", "2", ".">> >>,
     << "code_complexity", <<"8", ".", "3", ".">> >>,
     << "refactoring_opportunities", <<"8", ".", "4", ".">> >> >>

\* next((line for line in lines if line.startswith(prefix)), None): the index
\* of the line, 0 for None
first_line_startswith(lines, prefix) ==
    LET hits == {i \in 1..Len(lines) : startswith(lines[i], prefix)}
    IN  IF hits = {} THEN 0 ELSE CHOOSE i \in hits : \A j \in hits : i <= j

\* next((line for line in lines if sub in line.lower()), None)
first_line_containing(lines, sub) ==
    LET hits == {i \in 1..Len(lines) : contains(lower(lines[i]), sub)}
    IN  IF hits = {} THEN 0 ELSE CHOOSE i \in hits : \A j \in hits : i <= j

\* AIAuditor.parse_audit_response.parse_response_line with default=None and
\* is_time_to_fix=False, the only way it is called
parse_response_line(lines, point_key, prefix) ==
    LET i == first_line_startswith(lines, prefix)
        parts == split_once(lines[i], ":")
        result == strip(parts[2])
    IN  IF i = 0 \/ Len(parts) < 2 THEN PyNone
        ELSE IF point_key = "domain" THEN PyStr(sanitize_domain(result))
        ELSE PyStr(sanitize_text(result))

\* the gate: the first line starting with "0.", answered "no"
is_script_no(lines) ==
    LET i == first_line_startswith(lines, <<"0", ".">>)
        parts == split_once(lines[i], ":")
    IN  /\ i # 0
        /\ Len(parts) > 1
        /\ lower(strip(parts[2])) = <<"n", "o">>

not_a_script(lines) ==
    LET i == first_line_startswith(lines, <<"0", ".", "1", ".">>)
        parts == split_once(lines[i], ":")
        explanation == IF i # 0 /\ Len(parts) > 1 THEN strip(parts[2]) ELSE <<"N", "/", "A">>
    IN  [audit_data |-> [is_script |-> PyStr(<<"n", "o">>),
                         is_script_explanation |-> PyStr(explanation)],
         none_response_count |-> 0]

\* the loop over schema_mapping of AIAuditor.parse_audit_response
RECURSIVE parse_schema_textual(_, _, _)
parse_schema_textual(lines, k, acc) ==
    IF k > Len(schema_mapping) THEN acc
    ELSE LET key == schema_mapping[k][1]
             value == parse_response_line(lines, key, strip(schema_mapping[k][2]))
         IN  parse_schema_textual(lines, k + 1,
                 [audit_data |-> Put(acc.audit_data, key, value),
                  none_response_count |->
                      IF value = PyStr(<<"N", "o", "n", "e">>)
                      THEN acc.none_response_count + 1
                      ELSE acc.none_response_count])

UnscoredKeys == {"is_script", "is_script_explanation", "package_dependencies"}

\* the loop over schema_mapping of AIAuditorNum.parse_audit_response
RECURSIVE parse_schema_numerical(_, _, _)
parse_schema_numerical(lines, k, data) ==
    IF k > Len(schema_mapping) THEN data
    ELSE LET key == schema_mapping[k][1]
             i == first_line_startswith(lines, schema_mapping[k][2])
             parts == split_once(lines[i], ":")
             value == strip(parts[2])
         IN  parse_schema_numerical(lines, k + 1,
                 IF i = 0 \/ Len(parts) < 2 THEN data
                 ELSE IF key = "domain" THEN Put(data, key, PyStr(sanitize_domain(value)))
                 ELSE IF key \notin UnscoredKeys THEN Put(data, key, _parse_numerical_value(value))
                 ELSE Put(data, key, PyStr(value)))

\* the line count AIAuditorNum.parse_audit_response takes from the answer
line_count_from_response(lines, sub, key, data) ==
    LET i == first_line_containing(lines, sub)
        parts == split_once(lines[i], ":")
    IN  IF i = 0 \/ Len(parts) < 2 THEN data
        ELSE Put(data, key, _parse_numerical_value(parts[2]))

parse_audit_response(text, m) ==
    LET response_lines == split(text, "\n")
    IN  IF is_script_no(response_lines) THEN not_a_script(response_lines)
        ELSE IF m = "textual"
        THEN parse_schema_textual(response_lines, 1,
                 [audit_data |-> EmptyDict, none_response_count |-> 0])
        ELSE [audit_data |->
                 line_count_from_response(response_lines,
                     <<"l", "i", "n", "e", "s", " ", "o", "f", " ", "d", "o", "c", "u", "m",
                       "e", "n", "t", "a", "t", "i", "o", "n">>, "lines_of_doc",
                     line_count_from_response(response_lines,
                         <<"l", "i", "n", "e", "s", " ", "o", "f", " ", "c", "o", "d", "e">>,
                         "lines_of_code",
                         parse_schema_numerical(response_lines, 1, EmptyDict))),
              none_response_count |-> 0]

\* bool(value) of a stored value
truthy(value) ==
    CASE value.t = "NoneType" -> FALSE
      [] value.t = "str" -> value.s # <<>>
      [] value.t = "int" -> value.i # 0
      [] value.t = "float" -> value.q # FromInt(0)

\* is_audit_data_valid of both auditors: a bool, or the AttributeError of
\* calling lower() on an is_script that is not a str
is_audit_data_valid(data) ==
    IF data = EmptyDict THEN [t |-> "bool", b |-> FALSE]
    ELSE LET is_script == Get(data, "is_script", PyStr(<<>>))
         IN  IF is_script.t # "str" THEN [t |-> "AttributeError"]
             ELSE IF lower(is_script.s) = <<"n", "o">>
             THEN [t |-> "bool",
                   b |-> \A field \in {"is_script", "is_script_explanation"} :
                            field \in DOMAIN data]
             ELSE [t |-> "bool",
                   b |-> "domain" \in DOMAIN data /\ truthy(data["domain"])]

\* get_score_for_value of run_test/audit_scoring.py
get_score_for_value(attribute, value) ==
    IF value.t = "int" THEN value.i
    ELSE IF value.t = "float" THEN int_of_float(value.q)
    ELSE get_score(attribute, value.s)

---------------------------------------------------------------------------
(* run_test.py: one file of one cycle *)

\* the samples of code_samples/, in the order get_code_files lists them
code_samples ==
    << [name |-> "a.py",
        content |-> <<"#", " ", "a", "\n", "x", " ", "=", " ", "1", "\n">>],
       [name |-> "b.py",
        content |-> <<"'", "d", "'", "\n", "\n", "y", "=", "2", "\n", "z", "=", "3">>] >>

\* count_code_lines: <<lines_of_code, lines_of_doc>>
RECURSIVE count_lines(_, _)
count_lines(lines, counts) ==
    IF lines = <<>> THEN counts
    ELSE LET line == strip(Head(lines))
         IN  count_lines(Tail(lines),
                 IF line = <<>> THEN counts
                 ELSE IF \/ startswith(line, <<"#">>)
                         \/ startswith(line, <<"\"", "\"", "\"">>)
                         \/ startswith(line, <<"'">>)
                 THEN <<counts[1], counts[2] + 1>>
                 ELSE <<counts[1] + 1, counts[2]>>)

count_code_lines(code_content) == count_lines(split(code_content, "\n"), <<0, 0>>)

fieldnames ==
  <<"filename", "cycle", "domain", "model_used", "lines_of_code", "lines_of_doc",
    "readability", "consistency", "modularity", "maintainability", "reusability", "redundancy",
    "technical_debt", "code_smells", "completeness", "edge_cases", "error_handling",
    "efficiency", "scalability", "resource_utilization", "load_handling",
    "parallel_processing", "database_interaction_efficiency", "concurrency_management",
    "state_management_efficiency", "modularity_decoupling", "configuration_customization_ease",
    "input_validation", "data_handling", "authentication", "independence", "integration",
    "inline_comments", "standards", "design_patterns", "code_complexity",
    "refactoring_opportunities" >>

RowHeader == {"filename", "cycle", "domain", "model_used", "lines_of_code", "lines_of_doc"}

\* the tail of audit_content once an API call succeeded with response
audit_content(response, m, model_no) ==
    Put(_parse_audit_response(response, m), "model_used",
        IF model_no = 1 THEN "anthropic" ELSE "openai")

\* the score process_file stores for a metric column
row_score(audit_results, field) ==
    LET value == Get(audit_results, field, PyNone)
    IN  IF value # PyNone THEN get_score_for_value(field, value) ELSE 0

\* a row with a column only for the metrics the parser set
build_row_of_set_fields(audit_results, file, cyc) ==
    LET counts == count_code_lines(file.content)
        domain == Get(audit_results, "domain", PyStr(<<"N", "/", "A">>))
        columns == {field \in {fieldnames[i] : i \in 1..Len(fieldnames)} :
                       field \in RowHeader \/ Get(audit_results, field, PyNone) # PyNone}
    IN  [field \in columns |->
            CASE field = "filename" -> file.name
              [] field = "cycle" -> cyc
              [] field = "domain" -> domain.s
              [] field = "model_used" -> Get(audit_results, "model_used", "unknown")
              [] field = "lines_of_code" -> counts[1]
              [] field = "lines_of_doc" -> counts[2]
              [] OTHER -> row_score(audit_results, field)]

\* the row process_file builds from what audit_content returned
build_row(audit_results, file, cyc) ==
    LET counts == count_code_lines(file.content)
        domain == Get(audit_results, "domain", PyStr(<<"N", "/", "A">>))
    IN  [field \in {fieldnames[i] : i \in 1..Len(fieldnames)} |->
            CASE field = "filename" -> file.name
              [] field = "cycle" -> cyc
              [] field = "domain" -> domain.s
              [] field = "model_used" -> Get(audit_results, "model_used", "unknown")
              [] field = "lines_of_code" -> counts[1]
              [] field = "lines_of_doc" -> counts[2]
              [] OTHER -> row_score(audit_results, field)]

\* the class attributes of both auditors
MAX_RETRIES == 3

MAX_CONCURRENT == 5

\* an audit_content call: where it stands (acquire: at 'async with
\* self.semaphore'; call: the API request is in flight; sleep: in
\* asyncio.sleep before a retry; returned; raised) and the attempts that
\* failed so far, the loop variable attempt
call_started == [pc |-> "acquire", attempt |-> 0]

\* a semaphore that lets every call in
never_locked(sem) == FALSE

\* asyncio.Semaphore.locked: no slot is free
locked(sem) == sem = 0

\* a slot that is not given back
release_dropped(sem) == sem

\* Semaphore.release on leaving 'async with self.semaphore'
release(sem) == sem + 1

\* the loop that goes on whatever the number of attempts
call_responded_unbounded(call, success) ==
    IF success THEN [pc |-> "returned", attempt |-> call.attempt]
    ELSE [pc |-> "sleep", attempt |-> call.attempt + 1]

\* the call once its API attempt ended: returned on a success; on a failure
\* the next iteration of 'for attempt in range(self.MAX_RETRIES)', which
\* sleeps first, or RuntimeError when the loop is exhausted
call_responded(call, success) ==
    IF success THEN [pc |-> "returned", attempt |-> call.attempt]
    ELSE IF call.attempt + 1 < MAX_RETRIES
    THEN [pc |-> "sleep", attempt |-> call.attempt + 1]
    ELSE [pc |-> "raised", attempt |-> call.attempt + 1]

\* the failed attempts of the calls 1..n
RECURSIVE failures(_, _)
failures(cs, n) == IF n = 0 THEN 0 ELSE cs[n].attempt + failures(cs, n - 1)

\* the calls with an API request in flight
in_flight(cs) == {c \in DOMAIN cs : cs[c].pc = "call"}

\* process_file: <<True, row>> when audit_content returned, <<False, {}>> when
\* it raised after its retries
ApiFailure == [t |-> "RuntimeError"]

process_file(outcome, m, model_no, file, cyc) ==
    IF outcome = ApiFailure THEN [success |-> FALSE, row |-> EmptyDict]
    ELSE [success |-> TRUE,
          row |-> build_row(audit_content(outcome.s, m, model_no), file, cyc)]

---------------------------------------------------------------------------
(* run_test/audit_scoring.py: calculate_deviations *)

numeric_fields ==
  <<"readability", "consistency", "modularity", "maintainability", "reusability", "redundancy",
    "technical_debt", "code_smells", "completeness", "edge_cases", "error_handling",
    "efficiency", "scalability", "resource_utilization", "load_handling",
    "parallel_processing", "database_interaction_efficiency", "concurrency_management",
    "state_management_efficiency", "modularity_decoupling", "configuration_customization_ease",
    "input_validation", "data_handling", "authentication", "independence", "integration",
    "inline_comments", "standards", "design_patterns", "code_complexity",
    "refactoring_opportunities" >>

num_metrics == Len(numeric_fields)

\* files_data: the file names in the order of their first row (dict order)
RECURSIVE file_order(_, _)
file_order(rows, seen) ==
    IF rows = <<>> THEN seen
    ELSE file_order(Tail(rows),
             IF \E i \in 1..Len(seen) : seen[i] = Head(rows)["filename"]
             THEN seen
             ELSE Append(seen, Head(rows)["filename"]))

\* files_data[filename]: the rows of the file, in input order
file_rows(rows, filename) == SelectSeq(rows, LAMBDA row : row["filename"] = filename)

\* a sequence with its elements evaluated
Evaluated(seq) == SubSeq(seq, 1, Len(seq))

\* [int(result[field]) for result in file_results]
metric_values(file_results, field) ==
    Evaluated([i \in 1..Len(file_results) |-> file_results[i][field]])

mean_of(values) == Frac(sum_ints(values), Len(values))

\* the deviations from the mean taken with their sign
avg_deviation_signed(values) ==
    LET mean_value == mean_of(values)
        deviations_from_mean ==
            Evaluated([i \in 1..Len(values) |->
                FMul(FDiv(FSub(FromInt(values[i]), mean_value), mean_value),
                     FromInt(100))])
    IN  IF FLess(FromInt(0), mean_value)
        THEN FDiv(sum_floats(deviations_from_mean), FromInt(Len(deviations_from_mean)))
        ELSE FromInt(0)

\* the division by the mean whatever the mean
avg_deviation_unguarded(values) ==
    LET mean_value == mean_of(values)
        deviations_from_mean ==
            Evaluated([i \in 1..Len(values) |->
                FMul(FDiv(FAbs(FSub(FromInt(values[i]), mean_value)), mean_value),
                     FromInt(100))])
    IN  FDiv(sum_floats(deviations_from_mean), FromInt(Len(deviations_from_mean)))

\* the deviations taken from the first value instead of the mean
avg_deviation_from_first(values) ==
    LET first_value == FromInt(values[1])
        deviations_from_first ==
            Evaluated([i \in 1..Len(values) |->
                FMul(FDiv(FAbs(FSub(FromInt(values[i]), first_value)), first_value),
                     FromInt(100))])
    IN  IF FLess(FromInt(0), first_value)
        THEN FDiv(sum_floats(deviations_from_first), FromInt(Len(deviations_from_first)))
        ELSE FromInt(0)

\* avg_deviation of one metric of one file, before rounding
avg_deviation_of(values) ==
    LET mean_value == mean_of(values)
        deviations_from_mean ==
            Evaluated([i \in 1..Len(values) |->
                FMul(FDiv(FAbs(FSub(FromInt(values[i]), mean_value)), mean_value),
                     FromInt(100))])
    IN  IF FLess(FromInt(0), mean_value)
        THEN FDiv(sum_floats(deviations_from_mean), FromInt(Len(deviations_from_mean)))
        ELSE FromInt(0)

metric_info(values, avg_deviation, ties_up) ==
    [mean |-> round2(mean_of(values), ties_up),
     min |-> min_ints(values),
     max |-> max_ints(values),
     range |-> max_ints(values) - min_ints(values),
     avg_deviation_percent |-> round2(avg_deviation, ties_up),
     values_per_cycle |-> values]

NoMetric == "None"

\* the loop with the comparison >=: the last of the largest metrics is kept
RECURSIVE file_totals_last_wins(_, _, _)
file_totals_last_wins(avg_deviations, lo, hi) ==
    IF lo = hi
    THEN [total_deviation |-> FAdd(FromInt(0), avg_deviations[lo]),
          max_deviation |-> avg_deviations[lo],
          most_inconsistent_metric |-> numeric_fields[lo]]
    ELSE LET mid == (lo + hi) \div 2
             first == file_totals_last_wins(avg_deviations, lo, mid)
             second == file_totals_last_wins(avg_deviations, mid + 1, hi)
             larger == ~FLess(second.max_deviation, first.max_deviation)
         IN  [total_deviation |-> FAdd(first.total_deviation, second.total_deviation),
              max_deviation |->
                  IF larger THEN second.max_deviation ELSE first.max_deviation,
              most_inconsistent_metric |->
                  IF larger THEN second.most_inconsistent_metric
                  ELSE first.most_inconsistent_metric]

\* the loop started below every deviation: the first metric is always taken
RECURSIVE file_totals_first_taken(_, _, _)
file_totals_first_taken(avg_deviations, lo, hi) ==
    IF lo = hi
    THEN [total_deviation |-> FAdd(FromInt(0), avg_deviations[lo]),
          max_deviation |-> avg_deviations[lo],
          most_inconsistent_metric |-> numeric_fields[lo]]
    ELSE LET mid == (lo + hi) \div 2
             first == file_totals_first_taken(avg_deviations, lo, mid)
             second == file_totals_first_taken(avg_deviations, mid + 1, hi)
             larger == FLess(first.max_deviation, second.max_deviation)
         IN  [total_deviation |-> FAdd(first.total_deviation, second.total_deviation),
              max_deviation |->
                  IF larger THEN second.max_deviation ELSE first.max_deviation,
              most_inconsistent_metric |->
                  IF larger THEN second.most_inconsistent_metric
                  ELSE first.most_inconsistent_metric]

\* the loop over numeric_fields for one file, for the fields lo..hi, given the
\* avg_deviation of every field: their total_deviation, and the max_deviation
\* and most_inconsistent_metric the strict comparison leaves, starting from 0
\* and None.  The fields are taken by halves: a later field replaces the
\* maximum only when strictly larger, so the second half replaces the first
\* half's only when strictly larger
RECURSIVE file_totals(_, _, _)
file_totals(avg_deviations, lo, hi) ==
    IF lo = hi
    THEN LET larger == FLess(FromInt(0), avg_deviations[lo])
         IN  [total_deviation |-> FAdd(FromInt(0), avg_deviations[lo]),
              max_deviation |-> IF larger THEN avg_deviations[lo] ELSE FromInt(0),
              most_inconsistent_metric |-> IF larger THEN numeric_fields[lo] ELSE NoMetric]
    ELSE LET mid == (lo + hi) \div 2
             first == file_totals(avg_deviations, lo, mid)
             second == file_totals(avg_deviations, mid + 1, hi)
             larger == FLess(first.max_deviation, second.max_deviation)
         IN  [total_deviation |-> FAdd(first.total_deviation, second.total_deviation),
              max_deviation |->
                  IF larger THEN second.max_deviation ELSE first.max_deviation,
              most_inconsistent_metric |->
                  IF larger THEN second.most_inconsistent_metric
                  ELSE first.most_inconsistent_metric]

\* the number of metrics that deviate at all
count_deviating(avg_deviations) ==
    Cardinality({k \in 1..Len(avg_deviations) : FLess(FromInt(0), avg_deviations[k])})

\* the divisor of a file's avg_total_deviation
file_divisor(avg_deviations) == num_metrics

field_index(field) == CHOOSE k \in 1..num_metrics : numeric_fields[k] = field

\* the avg_deviation of every field of numeric_fields for one file
file_avg_deviations(file_results) ==
    Evaluated([k \in 1..num_metrics |->
        avg_deviation_of(metric_values(file_results, numeric_fields[k]))])

\* sum() adds from the left in floats: two lists of the same terms add up to
\* the same float when they are the same list or differ by the exchange of
\* their first two terms, and lists of fewer than three terms always do
summed_alike(values, others) ==
    \/ Len(values) < 3
    \/ values = others
    \/ values = <<others[2], others[1]>> \o SubSeq(others, 3, Len(others))

\* the metrics declared after most whose exact avg_deviation equals that of
\* most while their values are summed in another order: in floats their
\* avg_deviation may exceed it by a rounding error
float_rivals(file_results, avg_deviations, most) ==
    {k \in 1..num_metrics :
        /\ k > field_index(most)
        /\ avg_deviations[k] = avg_deviations[field_index(most)]
        /\ ~summed_alike(metric_values(file_results, numeric_fields[k]),
                         metric_values(file_results, most))}

\* the metric the scan 'if avg_deviation > max_deviation' keeps, the floats
\* of exactly equal deviations compared as ties_up says
most_inconsistent_float(file_results, avg_deviations, most, ties_up) ==
    IF most = NoMetric \/ ~ties_up THEN most
    ELSE LET rivals == float_rivals(file_results, avg_deviations, most)
         IN  IF rivals = {} THEN most
             ELSE numeric_fields[CHOOSE k \in rivals : \A j \in rivals : k <= j]

\* deviations['per_file'][filename] once the loop over numeric_fields ended
per_file_entry(file_results, avg_deviations, ties_up) ==
    LET totals == file_totals(avg_deviations, 1, num_metrics)
    IN  [metrics |->
            [field \in {numeric_fields[i] : i \in 1..num_metrics} |->
                metric_info(metric_values(file_results, field),
                            avg_deviations[field_index(field)], ties_up)],
         total_deviation |-> totals.total_deviation,
         max_deviation |-> totals.max_deviation,
         most_inconsistent_metric |->
             most_inconsistent_float(file_results, avg_deviations,
                                     totals.most_inconsistent_metric, ties_up),
         avg_total_deviation |->
             round2(FDiv(totals.total_deviation, FromInt(file_divisor(avg_deviations))),
                    ties_up)]

\* overall.metrics[field] counting only the files where the field deviates
overall_metric_of_deviating(file_avgs, k, ties_up) ==
    LET total_deviation ==
            sum_floats(Evaluated([i \in 1..Len(file_avgs) |-> file_avgs[i][k]]))
        count == Cardinality({i \in 1..Len(file_avgs) : FLess(FromInt(0), file_avgs[i][k])})
    IN  [total_deviation |-> total_deviation,
         count |-> count,
         avg_deviation |->
             IF count > 0 THEN round2(FDiv(total_deviation, FromInt(count)), ties_up)
             ELSE FromInt(0)]

\* overall.metrics[field] after every file was added
overall_metric(file_avgs, k, ties_up) ==
    LET total_deviation ==
            sum_floats(Evaluated([i \in 1..Len(file_avgs) |-> file_avgs[i][k]]))
        count == Len(file_avgs)
    IN  [total_deviation |-> total_deviation,
         count |-> count,
         avg_deviation |->
             IF count > 0 THEN round2(FDiv(total_deviation, FromInt(count)), ties_up)
             ELSE FromInt(0)]

\* a row without one of numeric_fields makes result[field] raise KeyError
missing_key(rows) ==
    \E i \in 1..Len(rows) : \E k \in 1..num_metrics :
        numeric_fields[k] \notin DOMAIN rows[i]

\* the number of rows of the collection
num_rows(rows) == Len(rows)

\* num_files = len(files_data)
num_files(rows) == Len(file_order(rows, <<>>))

\* the overall average without the test of num_files
overall_average_unguarded(total_deviation, n, ties_up) ==
    round2(FDiv(total_deviation, FromInt(n)), ties_up)

\* overall.avg_total_deviation: left at 0 when there is no file
overall_average(total_deviation, n, ties_up) ==
    IF n > 0 THEN round2(FDiv(total_deviation, FromInt(n)), ties_up) ELSE FromInt(0)

\* the report of rows that hold every key of numeric_fields
\* ties_up: the way round() takes the halves of this call
deviations_report(rows, ties_up) ==
    LET files == file_order(rows, <<>>)
        file_avgs ==
            Evaluated([i \in 1..Len(files) |->
                file_avg_deviations(file_rows(rows, files[i]))])
        entries ==
            Evaluated([i \in 1..Len(files) |->
                per_file_entry(file_rows(rows, files[i]), file_avgs[i], ties_up)])
        total_deviation ==
            sum_floats(Evaluated([i \in 1..Len(files) |-> entries[i].avg_total_deviation]))
    IN  IF \E i \in 1..Len(files) : Raised(entries[i].total_deviation)
        THEN [raised |-> "ZeroDivisionError"]
        ELSE [raised |-> "",
              file_names |-> files,
              per_file |->
                  [filename \in {files[i] : i \in 1..Len(files)} |->
                      entries[CHOOSE i \in 1..Len(files) : files[i] = filename]],
              overall |->
                  [metrics |->
                      [field \in {numeric_fields[i] : i \in 1..num_metrics} |->
                          overall_metric(file_avgs, field_index(field), ties_up)],
                   total_deviation |-> total_deviation,
                   avg_total_deviation |->
                       overall_average(total_deviation, num_files(rows), ties_up)]]

\* a row completed with 0 for the keys of numeric_fields it lacks
with_defaults(row) ==
    [key \in DOMAIN row \cup {numeric_fields[k] : k \in 1..num_metrics} |->
        IF key \in DOMAIN row THEN row[key] ELSE 0]

\* the report with a missing key read as 0
calculate_deviations_defaulting(rows, ties_up) ==
    deviations_report(Evaluated([i \in 1..Len(rows) |-> with_defaults(rows[i])]), ties_up)

\* result[field] raises KeyError for a row without the field
calculate_deviations(rows, ties_up) ==
    IF missing_key(rows) THEN [raised |-> "KeyError"] ELSE deviations_report(rows, ties_up)
---------------------------------------------------------------------------
(* bounds and inputs *)

NumCycles == 2      \* args.cycles
MaxLines == 2       \* lines of a generated answer
MaxLen == 3         \* characters of a generated raw value
MaxRows == 3        \* rows handed to calculate_deviations
MaxDomainLen == 5  \* characters of a generated domain answer
NumCalls == 6       \* files of a cycle of calls
MaxFailures == 3    \* failed API attempts in a cycle

Modes == {"textual", "numerical"}

code_files == code_samples

FileIds == 1..Len(code_files)

Join(lines) == join(<<"\n">>, lines)

\* the pool of answer lines
AnswerLines ==
  << \* 1: 0. Is this analyzable code? (Yes / No): No
     <<"0", ".", " ", "I", "s", " ", "t", "h", "i", "s", " ", "a", "n", "a", "l", "y", "z", "a", "b", "l", "e", " ", "c", "o", "d", "e", "?", " ", "(", "Y", "e", "s", " ", "/", " ", "N", "o", ")", ":", " ", "N", "o">>,
     \* 2: 0. Is this analyzable code? (Yes / No): Yes
     <<"0", ".", " ", "I", "s", " ", "t", "h", "i", "s", " ", "a", "n", "a", "l", "y", "z", "a", "b", "l", "e", " ", "c", "o", "d", "e", "?", " ", "(", "Y", "e", "s", " ", "/", " ", "N", "o", ")", ":", " ", "Y", "e", "s">>,
     \* 3: 0.1. Reason: lock file
     <<"0", ".", "1", ".", " ", "R", "e", "a", "s", "o", "n", ":", " ", "l", "o", "c", "k", " ", "f", "i", "l", "e">>,
     \* 4: 2.1. Readability: Highly Readable
     <<"2", ".", "1", ".", " ", "R", "e", "a", "d", "a", "b", "i", "l", "i", "t", "y", ":", " ", "H", "i", "g", "h", "l", "y", " ", "R", "e", "a", "d", "a", "b", "l", "e">>,
     \* 5: 2.1. Readability: Low Readability
     <<"2", ".", "1", ".", " ", "R", "e", "a", "d", "a", "b", "i", "l", "i", "t", "y", ":", " ", "L", "o", "w", " ", "R", "e", "a", "d", "a", "b", "i", "l", "i", "t", "y">>,
     \* 6:   2.1. Readability:  47 
     <<" ", " ", "2", ".", "1", ".", " ", "R", "e", "a", "d", "a", "b", "i", "l", "i", "t", "y", ":", " ", " ", "4", "7", " ">>,
     \* 7: 2.1. Readability: abc
     <<"2", ".", "1", ".", " ", "R", "e", "a", "d", "a", "b", "i", "l", "i", "t", "y", ":", " ", "a", "b", "c">>,
     \* 8: 4.1. Efficiency: 70.5
     <<"4", ".", "1", ".", " ", "E", "f", "f", "i", "c", "i", "e", "n", "c", "y", ":", " ", "7", "0", ".", "5">>,
     \* 9: 4.10. Configuration: 150
     <<"4", ".", "1", "0", ".", " ", "C", "o", "n", "f", "i", "g", "u", "r", "a", "t", "i", "o", "n", ":", " ", "1", "5", "0">>,
     \* 10: 4.1. Efficiency
     <<"4", ".", "1", ".", " ", "E", "f", "f", "i", "c", "i", "e", "n", "c", "y">>,
     \* 11: 1.1. Script domain: Backend (web, 'api') services
     <<"1", ".", "1", ".", " ", "S", "c", "r", "i", "p", "t", " ", "d", "o", "m", "a", "i", "n", ":", " ", "B", "a", "c", "k", "e", "n", "d", " ", "(", "w", "e", "b", ",", " ", "'", "a", "p", "i", "'", ")", " ", "s", "e", "r", "v", "i", "c", "e", "s">>,
     \* 12: 2.7. Technical Debt: None
     <<"2", ".", "7", ".", " ", "T", "e", "c", "h", "n", "i", "c", "a", "l", " ", "D", "e", "b", "t", ":", " ", "N", "o", "n", "e">>,
     \* 13: 3.3. Error Handling: 1.2.3
     <<"3", ".", "3", ".", " ", "E", "r", "r", "o", "r", " ", "H", "a", "n", "d", "l", "i", "n", "g", ":", " ", "1", ".", "2", ".", "3">>,
     \* 14: Lines of code: 12
     <<"L", "i", "n", "e", "s", " ", "o", "f", " ", "c", "o", "d", "e", ":", " ", "1", "2">>,
     \* 15: 4.1. Efficiency: HIGH, mostly.
     <<"4", ".", "1", ".", " ", "E", "f", "f", "i", "c", "i", "e", "n", "c", "y", ":", " ", "H", "I", "G", "H", ",", " ", "m", "o", "s", "t", "l", "y", ".">> >>

\* answers of up to MaxLines lines of the pool
PoolTexts ==
    {Join(ls) : ls \in UNION {[1..n -> {AnswerLines[i] : i \in 1..Len(AnswerLines)}] :
                                n \in 0..MaxLines}}

RawAlphabet == {"0", "4", "7", ".", "a", " "}

RawValues == UNION {[1..n -> RawAlphabet] : n \in 0..MaxLen}

upper_char(c) ==
    IF \E i \in 1..26 : LowerCase[i] = c
    THEN UpperCase[CHOOSE i \in 1..26 : LowerCase[i] = c]
    ELSE c

\* ways an answer may spell a phrase of the rubric
PhraseVariants(p) ==
    {p,
     [i \in 1..Len(p) |-> upper_char(p[i])],
     <<upper_char(p[1])>> \o Tail(p),
     <<" ">> \o p \o <<" ", "\t">>,
     p \o <<" ", "(", "s", "e", "e", " ", "n", "o", "t", "e", "s", ")">>,
     SubSeq(p, 1, Len(p) - 1)}

\* the section label the if/elif chain reads field from
label_of(field) ==
    section_fields[CHOOSE i \in 1..Len(section_fields) : section_fields[i][2] = field][1]

OneLine(field, raw) == label_of(field) \o <<" ", "Q", ":">> \o raw

\* domain answers: words, blanks and parentheses
DomainAlphabet == {"a", " ", "("}

DomainValues == UNION {[1..n -> DomainAlphabet] : n \in 0..MaxDomainLen}

\* one-line answers: a generated raw value, a generated domain, or a variant
\* of a rubric phrase
ValueTexts ==
    {OneLine(field, raw) : field \in {"readability", "independence"}, raw \in RawValues}
    \cup {OneLine("domain", raw) : raw \in DomainValues}
    \cup UNION {UNION {{OneLine(field, <<" ">> \o v) :
                           v \in PhraseVariants(SCORE_MAPPINGS[field][k][1])} :
                       k \in 1..Len(SCORE_MAPPINGS[field])} :
                field \in DOMAIN SCORE_MAPPINGS}

Texts == PoolTexts \cup ValueTexts

\* what the API hands audit_content in a run
RunAnswers(m) ==
    IF m = "textual"
    THEN {Join(<<AnswerLines[2], AnswerLines[11], AnswerLines[4], AnswerLines[12]>>),
          Join(<<AnswerLines[1], AnswerLines[3]>>)}
    ELSE {Join(<<AnswerLines[2], AnswerLines[11], AnswerLines[6], AnswerLines[8]>>),
          Join(<<AnswerLines[1], AnswerLines[3]>>)}

\* <<efficiency, readability>> of the rows handed to calculate_deviations
ScoreProfiles == {<<50, 70>>, <<60, 32>>, <<70, 0>>, <<70, 50>>}

\* the metric keys a caller's row may lack
OmittedFields == {"efficiency"}

Pending == [state |-> "pending"]

NotComputed == [raised |-> "not computed"]

NotParsed == [state |-> "not parsed"]

NotScored == [state |-> "not scored"]

NotValidated == [state |-> "not validated"]

NotAssigned == [assigned |-> FALSE]

---------------------------------------------------------------------------
(* Spec: a run of main_async *)

Init ==
    /\ mode \in Modes
    /\ model_number \in {1, 2}
    /\ response_text = <<>>
    /\ audit_data = EmptyDict
    /\ parsed = NotParsed
    /\ score = NotScored
    /\ cycle = 1
    /\ results = [f \in FileIds |-> Pending]
    /\ all_results = <<>>
    /\ csv_rows = <<>>
    /\ row_source = <<>>
    /\ deviations = NotComputed
    /\ is_valid = NotValidated
    /\ semaphore = MAX_CONCURRENT
    /\ calls = [f \in FileIds |-> call_started]
    /\ deviation_file = NotAssigned
    /\ pc = "cycle"

\* a call enters 'async with self.semaphore' (in _try_anthropic for model 1,
\* around run_in_executor for model 2) and sends its API request
Acquire(c) ==
    /\ pc = "cycle"
    /\ calls[c].pc = "acquire"
    /\ ~locked(semaphore)
    /\ semaphore' = semaphore - 1
    /\ calls' = [calls EXCEPT ![c].pc = "call"]
    /\ UNCHANGED <<score, mode, model_number, response_text, audit_data, parsed, cycle,
                   results, all_results, csv_rows, row_source, deviations, pc,
                   is_valid, deviation_file>>

\* the API request of a call ends, with an answer or with a failure: the
\* slot is given back, and the call returns, goes to sleep before its next
\* attempt, or raises
Respond(c) ==
    /\ pc = "cycle"
    /\ calls[c].pc = "call"
    /\ semaphore' = release(semaphore)
    /\ \E success \in BOOLEAN :
          /\ success \/ failures(calls, Len(calls)) < MaxFailures
          /\ calls' = [calls EXCEPT ![c] = call_responded(calls[c], success)]
    /\ UNCHANGED <<score, mode, model_number, response_text, audit_data, parsed, cycle,
                   results, all_results, csv_rows, row_source, deviations, pc,
                   is_valid, deviation_file>>

\* asyncio.sleep(RETRY_DELAY * (attempt + 1)) is over
Wake(c) ==
    /\ pc = "cycle"
    /\ calls[c].pc = "sleep"
    /\ calls' = [calls EXCEPT ![c].pc = "acquire"]
    /\ UNCHANGED <<score, mode, model_number, response_text, audit_data, parsed, cycle,
                   results, all_results, csv_rows, row_source, deviations, pc,
                   is_valid, semaphore, deviation_file>>

\* what audit_content handed process_file: an answer of the API when the
\* call returned, the RuntimeError when it raised
call_outcomes(call, m) ==
    IF call.pc = "raised" THEN {ApiFailure} ELSE {PyStr(a) : a \in RunAnswers(m)}

\* one task of process_cycle: process_file for file f, from the end of its
\* audit_content call to its return
ProcessFile(f) ==
    /\ pc = "cycle"
    /\ results[f] = Pending
    /\ calls[f].pc \in {"returned", "raised"}
    /\ \E outcome \in call_outcomes(calls[f], mode) :
          results' = [results EXCEPT ![f] =
              [state |-> "done", outcome |-> outcome,
               result |-> process_file(outcome, mode, model_number, code_files[f], cycle)]]
    /\ UNCHANGED <<score, mode, model_number, response_text, audit_data, parsed, cycle,
                   all_results, csv_rows, row_source, deviations, pc,
                   is_valid, semaphore, calls, deviation_file>>

\* the successful rows of the cycle, the last file's first
RECURSIVE cycle_rows_reversed(_, _)
cycle_rows_reversed(res, f) ==
    IF f > Len(code_files) THEN <<>>
    ELSE cycle_rows_reversed(res, f + 1) \o (IF res[f].result.success THEN <<res[f]>> ELSE <<>>)

\* the successful rows of the cycle, in the order of code_files
RECURSIVE cycle_rows(_, _)
cycle_rows(res, f) ==
    IF f > Len(code_files) THEN <<>>
    ELSE (IF res[f].result.success THEN <<res[f]>> ELSE <<>>) \o cycle_rows(res, f + 1)

\* a writer that has no cycle column
writerow_without_cycle(row) ==
    [field \in {fieldnames[i] : i \in 1..Len(fieldnames)} \ {"cycle"} |->
        IF field \in DOMAIN row THEN row[field] ELSE ""]

\* csv.DictWriter.writerow: the row's fieldnames columns, restval '' for a
\* column the row has no key for
writerow(row) ==
    [field \in {fieldnames[i] : i \in 1..Len(fieldnames)} |->
        IF field \in DOMAIN row THEN row[field] ELSE ""]

\* asyncio.gather(*tasks) returns once every task has ended
gathered(res) == \A f \in FileIds : res[f] # Pending

\* asyncio.gather returned: main_async writes and stores the rows of the
\* cycle and goes on to the next cycle, or to the analysis after the last;
\* the tasks of the cycle are over
EndCycle ==
    /\ pc = "cycle"
    /\ gathered(results)
    /\ LET done == cycle_rows(results, 1)
       IN  /\ csv_rows' = csv_rows \o [i \in 1..Len(done) |-> writerow(done[i].result.row)]
           /\ all_results' = all_results \o [i \in 1..Len(done) |-> done[i].result.row]
           /\ row_source' = row_source \o [i \in 1..Len(done) |-> done[i].outcome.s]
    /\ IF cycle < NumCycles
       THEN /\ cycle' = cycle + 1
            /\ results' = [f \in FileIds |-> Pending]
            /\ calls' = [f \in FileIds |-> call_started]
            /\ pc' = pc
       ELSE /\ pc' = "analysis"
            /\ calls' = <<>>
            /\ UNCHANGED <<cycle, results>>
    /\ UNCHANGED <<score, mode, model_number, response_text, audit_data, parsed, deviations,
                   is_valid, semaphore, deviation_file>>

\* the consistency analysis, skipped when no audit succeeded: the report is
\* computed and written to the deviation file of the run
Analyse ==
    /\ pc = "analysis"
    /\ \E ties_up \in BOOLEAN :
          IF Len(all_results) > 0
          THEN /\ deviations' = calculate_deviations(all_results, ties_up)
               /\ deviation_file' = [assigned |-> TRUE, content |-> deviations']
          ELSE UNCHANGED <<deviations, deviation_file>>
    /\ pc' = "summary"
    /\ UNCHANGED <<score, mode, model_number, response_text, audit_data, parsed, cycle, results,
                   all_results, csv_rows, row_source,
                   is_valid, semaphore, calls>>

\* the closing prints of main_async
PrintSummary ==
    /\ pc = "summary"
    /\ pc' = "done"
    /\ UNCHANGED <<score, mode, model_number, response_text, audit_data, parsed, cycle, results,
                   all_results, csv_rows, row_source, deviations,
                   is_valid, semaphore, calls, deviation_file>>

\* Ctrl-C while main_async runs: the tasks of the cycle are dropped.  Whether
\* the KeyboardInterrupt is raised inside main_async depends on where the
\* interpreter stands and on the version of asyncio.run, which may cancel
\* the main task instead: handled says that it reaches the
\* 'except KeyboardInterrupt' of main_async
Interrupt ==
    /\ pc \in {"cycle", "analysis", "summary"}
    /\ \E handled \in BOOLEAN : pc' = IF handled THEN "handler" ELSE "cancelled"
    /\ results' = [f \in FileIds |-> Pending]
    /\ calls' = <<>>
    /\ semaphore' = MAX_CONCURRENT
    /\ UNCHANGED <<score, mode, model_number, response_text, audit_data, parsed, cycle,
                   all_results, csv_rows, row_source, deviations,
                   is_valid, deviation_file>>

\* the 'except KeyboardInterrupt' block of main_async: the report of the rows
\* collected so far is computed, and written to deviation_file if that local
\* is assigned, which only Analyse does.  After Analyse the rows are the ones
\* it analysed, and calculate_deviations returns for them what it returned
HandleInterrupt ==
    /\ pc = "handler"
    /\ IF Len(all_results) = 0
       THEN UNCHANGED <<deviations, deviation_file>>
       ELSE IF deviation_file.assigned
       THEN /\ deviations' = deviations
            /\ deviation_file' = [assigned |-> TRUE, content |-> deviations']
       ELSE /\ \E ties_up \in BOOLEAN :
                  deviations' = calculate_deviations(all_results, ties_up)
            /\ UNCHANGED deviation_file
    /\ pc' = "interrupted"
    /\ UNCHANGED <<score, mode, model_number, response_text, audit_data, parsed, cycle, results,
                   all_results, csv_rows, row_source,
                   is_valid, semaphore, calls>>

Next ==
    \/ \E c \in DOMAIN calls : Acquire(c) \/ Respond(c) \/ Wake(c)
    \/ \E f \in FileIds : ProcessFile(f)
    \/ EndCycle
    \/ Analyse
    \/ PrintSummary
    \/ Interrupt
    \/ HandleInterrupt

Spec == Init /\ [][Next]_vars

---------------------------------------------------------------------------
(* SpecCalls: the audit_content calls of one cycle over NumCalls files *)

InitCalls ==
    /\ mode = "textual"
    /\ model_number \in {1, 2}
    /\ response_text = <<>>
    /\ audit_data = EmptyDict
    /\ parsed = NotParsed
    /\ score = NotScored
    /\ cycle = 1
    /\ results = [f \in FileIds |-> Pending]
    /\ all_results = <<>>
    /\ csv_rows = <<>>
    /\ row_source = <<>>
    /\ deviations = NotComputed
    /\ is_valid = NotValidated
    /\ semaphore = MAX_CONCURRENT
    /\ calls = [c \in 1..NumCalls |-> call_started]
    /\ deviation_file = NotAssigned
    /\ pc = "cycle"

NextCalls == \E c \in DOMAIN calls : Acquire(c) \/ Respond(c) \/ Wake(c)

SpecCalls == InitCalls /\ [][NextCalls]_vars

\* the event loop runs every task that can go on, every sleep ends, and every
\* API request ends
CallsFairness == \A c \in 1..NumCalls : WF_vars(Acquire(c) \/ Respond(c) \/ Wake(c))

SpecCallsFair == SpecCalls /\ CallsFairness

---------------------------------------------------------------------------
(* SpecParse: the parsers and process_file on one answer *)

InitParse ==
    /\ mode \in Modes
    /\ model_number = 1
    /\ response_text \in Texts
    /\ audit_data = EmptyDict
    /\ parsed = NotParsed
    /\ score = NotScored
    /\ cycle = 1
    /\ results = [f \in FileIds |-> Pending]
    /\ all_results = <<>>
    /\ csv_rows = <<>>
    /\ row_source = <<>>
    /\ deviations = NotComputed
    /\ is_valid = NotValidated
    /\ semaphore = MAX_CONCURRENT
    /\ calls = <<>>
    /\ deviation_file = NotAssigned
    /\ pc = "received"

\* audit_content after a successful API call
AuditContent ==
    /\ pc = "received"
    /\ audit_data' = audit_content(response_text, mode, model_number)
    /\ pc' = "audited"
    /\ UNCHANGED <<score, mode, model_number, response_text, parsed, cycle, results, all_results,
                   csv_rows, row_source, deviations,
                   is_valid, semaphore, calls, deviation_file>>

\* process_file of the first sample on that answer
BuildRow ==
    /\ pc = "audited"
    /\ results' = [results EXCEPT ![1] =
          [state |-> "done", outcome |-> PyStr(response_text),
           result |-> process_file(PyStr(response_text), mode, model_number,
                                   code_files[1], cycle)]]
    /\ pc' = "row"
    /\ UNCHANGED <<score, mode, model_number, response_text, audit_data, parsed, cycle,
                   all_results, csv_rows, row_source, deviations,
                   is_valid, semaphore, calls, deviation_file>>

\* parse_audit_response on the same answer
ParseSchema ==
    /\ pc = "row"
    /\ parsed' = parse_audit_response(response_text, mode)
    /\ pc' = "parsed"
    /\ UNCHANGED <<score, mode, model_number, response_text, audit_data, cycle, results,
                   all_results, csv_rows, row_source, deviations,
                   is_valid, semaphore, calls, deviation_file>>

\* is_audit_data_valid on the mapping parse_audit_response returned
Validate ==
    /\ pc = "parsed"
    /\ is_valid' = is_audit_data_valid(parsed.audit_data)
    /\ pc' = "validated"
    /\ UNCHANGED <<score, mode, model_number, response_text, audit_data, parsed, cycle,
                   results, all_results, csv_rows, row_source, deviations,
                   semaphore, calls, deviation_file>>

\* main_async on the row process_file returned: writer.writerow(row) and
\* all_results.append(row)
WriteRow ==
    /\ pc = "validated"
    /\ results[1].result.success
    /\ csv_rows' = Append(csv_rows, writerow(results[1].result.row))
    /\ all_results' = Append(all_results, results[1].result.row)
    /\ row_source' = Append(row_source, response_text)
    /\ pc' = "written"
    /\ UNCHANGED <<score, mode, model_number, response_text, audit_data, parsed, cycle,
                   results, deviations,
                   is_valid, semaphore, calls, deviation_file>>

\* the answer of the first line of text: what follows its first colon
first_answer(text) ==
    LET line == Head(split(text, "\n"))
    IN  IF find_char(line, ":") = 0 THEN line ELSE split_once(line, ":")[2]

\* attributes get_score is called with: two of the rubric, one outside it
ScoredAttributes == {"readability", "independence", "domain"}

\* get_score on the trimmed answer, the way _parse_audit_response calls it
GetScore ==
    /\ pc = "written"
    /\ \E attribute \in ScoredAttributes :
          LET value == strip(first_answer(response_text))
          IN  score' = [attribute |-> attribute, value |-> value,
                        score |-> get_score(attribute, value)]
    /\ pc' = "scored"
    /\ UNCHANGED <<mode, model_number, response_text, audit_data, parsed, cycle, results,
                   all_results, csv_rows, row_source, deviations,
                   is_valid, semaphore, calls, deviation_file>>

NextParse == AuditContent \/ BuildRow \/ ParseSchema \/ Validate \/ WriteRow \/ GetScore

SpecParse == InitParse /\ [][NextParse]_vars

---------------------------------------------------------------------------
(* SpecDev: calculate_deviations on collected rows *)

\* the row of the cycle cyc of file whose answer scored efficiency and
\* readability as profile
sample_row(file, profile, cyc) ==
    build_row([efficiency |-> PyInt(profile[1]), readability |-> PyInt(profile[2]),
               model_used |-> "anthropic"],
              file, cyc)

\* a third sample
another_sample == [name |-> "c.py", content |-> <<"w", "=", "0">>]

\* the rows of a run of two cycles over three samples, the third of which
\* failed in the second cycle
ThreeFiles ==
    << sample_row(code_files[1], <<60, 32>>, 1),
       sample_row(code_files[2], <<60, 32>>, 1),
       sample_row(another_sample, <<70, 0>>, 1),
       sample_row(code_files[1], <<70, 50>>, 2),
       sample_row(code_files[2], <<50, 70>>, 2) >>

\* three cycles of the first sample in which efficiency and readability
\* take the same scores in another order
TiedRows ==
    << sample_row(code_files[1], <<0, 25>>, 1),
       sample_row(code_files[1], <<25, 25>>, 2),
       sample_row(code_files[1], <<25, 0>>, 3) >>

\* the rows collected at the start: none, those of ThreeFiles, or those of
\* TiedRows
EarlierRows == {<<>>, ThreeFiles, TiedRows}

InitDev ==
    /\ mode = "numerical"
    /\ model_number = 1
    /\ response_text = <<>>
    /\ audit_data = EmptyDict
    /\ parsed = NotParsed
    /\ score = NotScored
    /\ cycle = 1
    /\ results = [f \in FileIds |-> Pending]
    /\ all_results \in EarlierRows
    /\ csv_rows = <<>>
    /\ row_source = <<>>
    /\ deviations = NotComputed
    /\ is_valid = NotValidated
    /\ semaphore = MAX_CONCURRENT
    /\ calls = <<>>
    /\ deviation_file = NotAssigned
    /\ pc = "collect"

\* the row of file f whose answer scored efficiency and readability as profile
profile_row(rows, f, profile) ==
    sample_row(code_files[f], profile, Len(file_rows(rows, code_files[f].name)) + 1)

AddRow ==
    /\ pc = "collect"
    /\ Len(all_results) < MaxRows
    /\ \E f \in FileIds : \E profile \in ScoreProfiles :
          all_results' = Append(all_results, profile_row(all_results, f, profile))
    /\ UNCHANGED <<score, mode, model_number, response_text, audit_data, parsed, cycle, results,
                   csv_rows, row_source, deviations, pc,
                   is_valid, semaphore, calls, deviation_file>>

\* the row without the key field
without(row, field) == [key \in DOMAIN row \ {field} |-> row[key]]

\* a caller that collects a row lacking a declared metric key
AddRowWithout ==
    /\ pc = "collect"
    /\ Len(all_results) < MaxRows
    /\ \E f \in FileIds : \E field \in OmittedFields :
          all_results' =
              Append(all_results, without(profile_row(all_results, f, <<50, 70>>), field))
    /\ UNCHANGED <<score, mode, model_number, response_text, audit_data, parsed, cycle, results,
                   csv_rows, row_source, deviations, pc,
                   is_valid, semaphore, calls, deviation_file>>

Calculate ==
    /\ pc = "collect"
    /\ \E ties_up \in BOOLEAN :
          deviations' = calculate_deviations(all_results, ties_up)
    /\ pc' = "done"
    /\ UNCHANGED <<score, mode, model_number, response_text, audit_data, parsed, cycle, results,
                   all_results, csv_rows, row_source,
                   is_valid, semaphore, calls, deviation_file>>

NextDev == AddRow \/ AddRowWithout \/ Calculate

SpecDev == InitDev /\ [][NextDev]_vars

---------------------------------------------------------------------------
(* properties *)

MetricColumns == {fieldnames[i] : i \in 1..Len(fieldnames)} \ RowHeader

DeclaredMetricKeys == MetricColumns \cup {numeric_fields[k] : k \in 1..num_metrics}

\* the parser left field unset in its reading of the answer: no key, or None
unset_in(parser_output, field) == Get(parser_output, field, PyNone) = PyNone

row_is_complete(row, text) ==
    LET parser_output == _parse_audit_response(text, mode)
    IN  \A field \in DeclaredMetricKeys :
            /\ field \in DOMAIN row
            /\ unset_in(parser_output, field) => row[field] = 0

\* C1: every row process_file returned successfully, and with it every row
\* written to the CSV and appended to all_results, has a value for every
\* metric column of fieldnames and every key calculate_deviations reads, and
\* that value is 0 where the parser left the field unset
C1_RowHasEveryMetricKey ==
    /\ \A f \in FileIds :
          results[f] # Pending /\ results[f].result.success
              => row_is_complete(results[f].result.row, results[f].outcome.s)
    /\ \A i \in 1..Len(all_results) :
          /\ row_is_complete(all_results[i], row_source[i])
          /\ \A field \in MetricColumns : csv_rows[i][field] = all_results[i][field]

\* a written row with one metric answered and the others defaulted
C1_Witness ==
    /\ pc = "written"
    /\ mode = "textual"
    /\ response_text = AnswerLines[4]
    /\ "efficiency" \notin DOMAIN audit_data
    /\ all_results[1]["readability"] = 100
    /\ csv_rows[1]["efficiency"] = 0

\* C2: every metric value of every row process_file built is an integer in
\* 0..100, whatever the answer and in both modes
C2_ScoresInRange ==
    /\ \A f \in FileIds :
          results[f] # Pending /\ results[f].result.success
              => \A field \in MetricColumns : results[f].result.row[field] \in 0..100
    /\ \A i \in 1..Len(all_results) :
          \A field \in MetricColumns : all_results[i][field] \in 0..100

\* a numerical answer above 100, clamped
C2_Witness ==
    /\ pc = "row"
    /\ mode = "numerical"
    /\ response_text = AnswerLines[9]
    /\ audit_data["configuration_customization_ease"] = PyInt(100)
    /\ results[1].result.row["configuration_customization_ease"] = 100

NumericFields == {numeric_fields[k] : k \in 1..num_metrics}

\* r is x rounded to 2 decimals: a number of hundredths no further than half a
\* hundredth from x
Rounded2(r, x) ==
    /\ r[2] # 0
    /\ 100 % r[2] = 0
    /\ 200 * Abs(r[1] * x[2] - x[1] * r[2]) <= r[2] * x[2]

\* the sum of |n * v - total| over the values v
RECURSIVE sum_abs_scaled(_, _, _)
sum_abs_scaled(values, n, total) ==
    IF values = <<>> THEN 0
    ELSE Abs(n * Head(values) - total) + sum_abs_scaled(Tail(values), n, total)

\* the mean of |v - mean| / mean * 100 over the values, for a positive mean;
\* 0 for a mean of 0
mean_relative_deviation(values) ==
    LET n == Len(values)
        total == sum_ints(values)
    IN  IF total = 0 THEN FromInt(0)
        ELSE Frac(100 * sum_abs_scaled(values, n, total), n * total)

\* the values of a metric for a file, from the rows handed to the analysis
values_of(filename, field) == metric_values(file_rows(all_results, filename), field)

Analysed == pc = "done" /\ deviations # NotComputed /\ deviations.raised = ""

\* C3: for every file and metric with a positive mean, avg_deviation_percent
\* is the mean over the file's values v of |v - mean| / mean * 100, rounded to
\* 2 decimals, and mean is their arithmetic mean; the values 50, 70, 60 give
\* mean 60 and avg_deviation_percent 11.11
C3_AvgDeviationPercent ==
    Analysed =>
        \A filename \in DOMAIN deviations.per_file : \A field \in NumericFields :
            LET values == values_of(filename, field)
                info == deviations.per_file[filename].metrics[field]
            IN  /\ sum_ints(values) > 0 =>
                      /\ Rounded2(info.mean, Frac(sum_ints(values), Len(values)))
                      /\ Rounded2(info.avg_deviation_percent,
                                  mean_relative_deviation(values))
                /\ values = <<50, 70, 60>> =>
                      /\ info.mean = FromInt(60)
                      /\ info.avg_deviation_percent = Frac(1111, 100)

\* the three cycles of scenario D analysed
C3_Witness ==
    /\ Analysed
    /\ values_of("a.py", "efficiency") = <<50, 70, 60>>
    /\ deviations.per_file["a.py"].metrics["efficiency"].avg_deviation_percent
           = Frac(1111, 100)

\* C4: a metric whose values for a file are all 0 raises nothing in
\* calculate_deviations on rows that hold every metric key, and its
\* avg_deviation_percent is 0
C4_MeanZeroIsSafe ==
    pc = "done" /\ deviations # NotComputed /\ ~missing_key(all_results) =>
        /\ deviations.raised = ""
        /\ \A filename \in DOMAIN deviations.per_file : \A field \in NumericFields :
              sum_ints(values_of(filename, field)) = 0
                  => deviations.per_file[filename].metrics[field].avg_deviation_percent
                         = FromInt(0)

\* a file with two rows whose readability is 0 both times, next to a metric
\* with a positive mean
C4_Witness ==
    /\ Analysed
    /\ values_of("b.py", "readability") = <<0, 0>>
    /\ values_of("b.py", "efficiency") = <<70, 70>>
    /\ deviations.per_file["b.py"].metrics["readability"].avg_deviation_percent = FromInt(0)

\* the first line whose trimmed content starts with label: its index, 0 if none
first_labelled(lines, label) ==
    LET hits == {i \in 1..Len(lines) : startswith(strip(lines[i]), label)}
    IN  IF hits = {} THEN 0 ELSE CHOOSE i \in hits : \A j \in hits : i <= j

\* the trimmed text after the first colon of a line
answer_after_colon(line) == strip(split_once(line, ":")[2])

\* the first labelled line carries an answer
has_answer(lines, label) ==
    /\ first_labelled(lines, label) # 0
    /\ find_char(lines[first_labelled(lines, label)], ":") # 0

first_answer_of(lines, label) == answer_after_colon(lines[first_labelled(lines, label)])

\* what parse_audit_response stores for key when the raw answer is raw
schema_value(m, key, raw) ==
    IF key = "domain" THEN PyStr(sanitize_domain(raw))
    ELSE IF m = "textual" THEN PyStr(sanitize_text(raw))
    ELSE IF key \in UnscoredKeys THEN PyStr(raw)
    ELSE _parse_numerical_value(raw)

\* C5: for each schema entry the value the parser reports comes from the
\* first line whose trimmed content starts with the entry's section label,
\* as the trimmed text after its first colon, whatever later lines carry the
\* same label and whatever whitespace precedes the label; stated for
\* _parse_audit_response, which the run uses, and for parse_audit_response
\* where it does not stop at the gate
C5_FirstLabelledLineIsUsed ==
    LET lines == split(response_text, "\n")
    IN  /\ pc # "received" =>
              \A b \in 1..Len(section_fields) :
                  LET label == section_fields[b][1]
                      field == section_fields[b][2]
                  IN  has_answer(lines, label) =>
                          /\ field \in DOMAIN audit_data
                          /\ audit_data[field]
                                 = branch_value(mode, field, first_answer_of(lines, label))
        /\ parsed # NotParsed /\ "readability" \in DOMAIN parsed.audit_data =>
              \A k \in 1..Len(schema_mapping) :
                  LET key == schema_mapping[k][1]
                      label == schema_mapping[k][2]
                  IN  has_answer(lines, label) =>
                          /\ key \in DOMAIN parsed.audit_data
                          /\ parsed.audit_data[key]
                                 = schema_value(mode, key, first_answer_of(lines, label))

\* the score of the first phrase of the attribute's mapping, in its order,
\* that the lowercased trimmed answer starts with; 0 without one or without
\* a mapping
phrase_score(attribute, answer) ==
    IF attribute \notin DOMAIN SCORE_MAPPINGS THEN 0
    ELSE LET mapping == SCORE_MAPPINGS[attribute]
             hits == {k \in 1..Len(mapping) : startswith(lower(strip(answer)), mapping[k][1])}
         IN  IF hits = {} THEN 0
             ELSE mapping[CHOOSE k \in hits : \A j \in hits : k <= j][2]

\* the lines whose trimmed content starts with label
labelled(lines, label) == {i \in 1..Len(lines) : startswith(strip(lines[i]), label)}

\* exactly one line carries the label, and it has an answer
one_answer(lines, label) == Cardinality(labelled(lines, label)) = 1 /\ has_answer(lines, label)

MetricBranches == {b \in 1..Len(section_fields) : section_fields[b][2] # "domain"}

\* C6: in textual mode the score of an answer is the score of the first
\* phrase, in the order of the attribute's mapping, that is a prefix of the
\* lowercased trimmed answer, and 0 when no phrase is or the attribute has no
\* mapping; 'Highly Readable' for readability scores 100
C6_FirstPrefixScore ==
    LET lines == split(response_text, "\n")
    IN  /\ mode = "textual" /\ pc # "received" =>
              /\ \A b \in MetricBranches :
                    one_answer(lines, section_fields[b][1]) =>
                        audit_data[section_fields[b][2]]
                            = PyInt(phrase_score(section_fields[b][2],
                                                 first_answer_of(lines, section_fields[b][1])))
              /\ response_text = AnswerLines[4] => audit_data["readability"] = PyInt(100)
        /\ score # NotScored => score.score = phrase_score(score.attribute, score.value)

\* get_score was called on 'Highly Readable' for readability and on an
\* attribute without a mapping
C6_Witness ==
    /\ mode = "textual"
    /\ pc = "scored"
    /\ response_text = AnswerLines[4]
    /\ audit_data["readability"] = PyInt(100)
    /\ score.attribute = "domain"
    /\ score.score = 0

\* the number a parsed value stands for
number_of(v) == IF v.t = "int" THEN FromInt(v.i) ELSE v.q

\* the digits and dots of raw, in their order
digits_and_dots(raw) == SelectSeq(raw, LAMBDA c : IsDigit(c) \/ c = ".")

\* s is a decimal number: digits around at most one dot, one digit at least
is_decimal(s) ==
    /\ Cardinality({i \in 1..Len(s) : s[i] = "."}) <= 1
    /\ \E i \in 1..Len(s) : IsDigit(s[i])

\* the value of the decimal number s
decimal_value(s) ==
    LET dot == IF \E i \in 1..Len(s) : s[i] = "."
               THEN CHOOSE i \in 1..Len(s) : s[i] = "." ELSE Len(s)
    IN  Frac(digits_value(SelectSeq(s, LAMBDA c : IsDigit(c))), power_of_ten(Len(s) - dot))

clamped(x) ==
    IF FLess(FromInt(100), x) THEN FromInt(100)
    ELSE IF FLess(x, FromInt(0)) THEN FromInt(0) ELSE x

\* C7: in numerical mode a raw answer is stripped of every character but
\* digits and '.'; when nothing remains or the rest is no decimal number the
\* value is None, otherwise it is the decimal number clamped to 0..100; '47'
\* gives 47.0 and 'abc' gives None
C7_NumericalValue ==
    LET lines == split(response_text, "\n")
    IN  mode = "numerical" /\ pc # "received" =>
            /\ \A b \in MetricBranches :
                  one_answer(lines, section_fields[b][1]) =>
                      LET kept == digits_and_dots(first_answer_of(lines, section_fields[b][1]))
                          value == audit_data[section_fields[b][2]]
                      IN  IF kept = <<>> \/ ~is_decimal(kept) THEN value = PyNone
                          ELSE /\ value # PyNone
                               /\ number_of(value) = clamped(decimal_value(kept))
            /\ response_text = AnswerLines[6] => audit_data["readability"] = PyFloat(FromInt(47))
            /\ response_text = AnswerLines[7] => audit_data["readability"] = PyNone

\* the answer ' 47 ' parsed to 47.0
C7_Witness ==
    /\ mode = "numerical"
    /\ pc = "audited"
    /\ response_text = AnswerLines[6]
    /\ audit_data["readability"] = PyFloat(FromInt(47))

\* the gate line: the first line labelled '0.' and not '0.1.'
gate_line(lines) ==
    LET hits == {i \in 1..Len(lines) :
                    /\ startswith(strip(lines[i]), <<"0", ".">>)
                    /\ ~startswith(strip(lines[i]), <<"0", ".", "1", ".">>)}
    IN  IF hits = {} THEN 0 ELSE CHOOSE i \in hits : \A j \in hits : i <= j

\* the answer of the gate line is 'No'
gate_says_no(text) ==
    LET lines == split(text, "\n")
        g == gate_line(lines)
    IN  /\ g # 0
        /\ find_char(lines[g], ":") # 0
        /\ lower(answer_after_colon(lines[g])) = <<"n", "o">>

\* the text after the colon of the '0.1.' line, 'N/A' without one
gate_explanation(text) ==
    LET lines == split(text, "\n")
    IN  IF has_answer(lines, <<"0", ".", "1", ".">>)
        THEN first_answer_of(lines, <<"0", ".", "1", ".">>)
        ELSE <<"N", "/", "A">>

\* C8: when the gate line answers 'No', parse_audit_response returns the two
\* keys is_script = 'no' and is_script_explanation and no metric field,
\* whatever the other lines
C8_GateNoShortCircuits ==
    parsed # NotParsed /\ gate_says_no(response_text) =>
        parsed.audit_data = [is_script |-> PyStr(<<"n", "o">>),
                             is_script_explanation |-> PyStr(gate_explanation(response_text))]

all_zero(row) == \A field \in MetricColumns : row[field] = 0

\* C9: an answer whose gate line says 'No' leaves no row with every metric 0
\* in the CSV or in what calculate_deviations is given
C9_GateNoIsExcluded ==
    \A i \in 1..Len(all_results) :
        gate_says_no(row_source[i]) => ~all_zero(all_results[i]) /\ ~all_zero(csv_rows[i])

\* the sum over the fields lo..hi of what term gives for each
RECURSIVE sum_over_fields(_, _, _)
sum_over_fields(term(_), lo, hi) ==
    IF lo = hi THEN term(numeric_fields[lo])
    ELSE LET mid == (lo + hi) \div 2
         IN  FAdd(sum_over_fields(term, lo, mid), sum_over_fields(term, mid + 1, hi))

\* the sum of the unrounded average deviations of a file's metrics
unrounded_total(filename) ==
    LET term(field) == mean_relative_deviation(values_of(filename, field))
    IN  sum_over_fields(term, 1, num_metrics)

\* the sum of the avg_deviation_percent reported for a file's metrics
reported_total(filename) ==
    LET term(field) == deviations.per_file[filename].metrics[field].avg_deviation_percent
    IN  sum_over_fields(term, 1, num_metrics)

\* C10, as the code computes it: for every file, avg_total_deviation is the
\* sum of the unrounded average deviations of all declared metrics divided by
\* the number of declared metrics, those with deviation 0 counted, rounded to
\* 2 decimals
C10_AvgTotalOfUnrounded ==
    Analysed =>
        \A filename \in DOMAIN deviations.per_file :
            Rounded2(deviations.per_file[filename].avg_total_deviation,
                     FDiv(unrounded_total(filename), FromInt(num_metrics)))

\* C10, as stated: for every file, avg_total_deviation is the sum of the
\* avg_deviation_percent of all declared metrics divided by the number of
\* declared metrics, rounded to 2 decimals
C10_AvgTotalOfReported ==
    Analysed =>
        \A filename \in DOMAIN deviations.per_file :
            Rounded2(deviations.per_file[filename].avg_total_deviation,
                     FDiv(reported_total(filename), FromInt(num_metrics)))

\* a file whose two deviating metrics sum to 46.40 unrounded, 1.50 on average
C10_Witness ==
    /\ Analysed
    /\ values_of("a.py", "efficiency") = <<50, 60>>
    /\ values_of("a.py", "readability") = <<70, 32>>
    /\ deviations.per_file["a.py"].avg_total_deviation = Frac(150, 100)


\* the files that have at least one row
files_with_rows == {all_results[i]["filename"] : i \in 1..Len(all_results)}

\* the sum over the files of S of what term gives for each
RECURSIVE sum_over_files(_, _)
sum_over_files(term(_), S) ==
    IF S = {} THEN FromInt(0)
    ELSE LET filename == CHOOSE x \in S : TRUE
         IN  FAdd(term(filename), sum_over_files(term, S \ {filename}))

\* the mean over the files of S of what term gives for each
mean_over_files(term(_), S) == FDiv(sum_over_files(term, S), FromInt(Cardinality(S)))

\* C11: the report has one entry per file with at least one row, and
\* overall.avg_total_deviation is the mean of these files' avg_total_deviation,
\* every file counted once however many rows it has, rounded to 2 decimals
C11_OverallIsMeanOfFiles ==
    Analysed /\ all_results # <<>> =>
        LET term(filename) == deviations.per_file[filename].avg_total_deviation
        IN  /\ DOMAIN deviations.per_file = files_with_rows
            /\ Rounded2(deviations.overall.avg_total_deviation,
                        mean_over_files(term, files_with_rows))

\* a file of two rows averaging 1.50 and a file of one row at 0: 0.75 overall
C11_Witness ==
    /\ Analysed
    /\ Len(file_rows(all_results, "a.py")) = 2
    /\ Len(file_rows(all_results, "b.py")) = 1
    /\ deviations.per_file["a.py"].avg_total_deviation = Frac(150, 100)
    /\ deviations.per_file["b.py"].avg_total_deviation = FromInt(0)
    /\ deviations.overall.avg_total_deviation = Frac(75, 100)

\* the mean over the files with rows of the unrounded average deviation of field
mean_of_unrounded(field) ==
    LET term(filename) == mean_relative_deviation(values_of(filename, field))
    IN  mean_over_files(term, files_with_rows)

\* the mean over the files with rows of the avg_deviation_percent reported for field
mean_of_reported(field) ==
    LET term(filename) == deviations.per_file[filename].metrics[field].avg_deviation_percent
    IN  mean_over_files(term, files_with_rows)

\* C12, as the code computes it: for every metric, overall.metrics[metric]
\* counts the files with at least one row, once each, and its avg_deviation is
\* the mean over these files of the metric's unrounded average deviation,
\* rounded to 2 decimals
C12_OverallMetricOfUnrounded ==
    Analysed /\ all_results # <<>> =>
        \A field \in NumericFields :
            /\ deviations.overall.metrics[field].count = Cardinality(files_with_rows)
            /\ Rounded2(deviations.overall.metrics[field].avg_deviation,
                        mean_of_unrounded(field))

\* C12, as stated: for every metric, overall.metrics[metric].avg_deviation is
\* the mean over the files with at least one row of the metric's
\* avg_deviation_percent, rounded to 2 decimals
C12_OverallMetricOfReported ==
    Analysed /\ all_results # <<>> =>
        \A field \in NumericFields :
            Rounded2(deviations.overall.metrics[field].avg_deviation,
                     mean_of_reported(field))

\* three files whose readability deviates by 21.95, 37.25 and 0: 19.74 overall
C12_Witness ==
    /\ Analysed
    /\ all_results = ThreeFiles
    /\ deviations.per_file["a.py"].metrics["readability"].avg_deviation_percent
           = Frac(2195, 100)
    /\ deviations.per_file["b.py"].metrics["readability"].avg_deviation_percent
           = Frac(3725, 100)
    /\ deviations.per_file["c.py"].metrics["readability"].avg_deviation_percent
           = FromInt(0)
    /\ deviations.overall.metrics["readability"].count = 3
    /\ deviations.overall.metrics["readability"].avg_deviation = Frac(1974, 100)

\* the avg_deviation_percent reported for a metric of a file
percent_of(filename, field) ==
    deviations.per_file[filename].metrics[field].avg_deviation_percent

\* some metric of the file deviates
deviates(filename) ==
    \E field \in NumericFields : FLess(FromInt(0), percent_of(filename, field))

\* C13: for every file in which some metric has a nonzero deviation,
\* most_inconsistent_metric is a declared metric whose avg_deviation_percent
\* no metric of the file exceeds, every metric declared before it has a
\* smaller one, and max_deviation is that largest deviation, of which the
\* avg_deviation_percent is the rounding to 2 decimals
C13_MostInconsistentMetric ==
    Analysed =>
        \A filename \in DOMAIN deviations.per_file :
            deviates(filename) =>
                LET entry == deviations.per_file[filename]
                    most == entry.most_inconsistent_metric
                IN  /\ most \in NumericFields
                    /\ \A field \in NumericFields :
                          ~FLess(percent_of(filename, most), percent_of(filename, field))
                    /\ \A k \in 1..num_metrics :
                          k < field_index(most) =>
                              FLess(percent_of(filename, numeric_fields[k]),
                                    percent_of(filename, most))
                    /\ entry.max_deviation
                           = mean_relative_deviation(values_of(filename, most))
                    /\ Rounded2(percent_of(filename, most), entry.max_deviation)

\* the deviations of two metrics of a file are exactly equal while their
\* values, over three or more rows, are summed in another order: which of the
\* two floats is larger is a matter of rounding errors
tie_left_to_rounding(filename, field, other) ==
    /\ avg_deviation_of(values_of(filename, field)) = avg_deviation_of(values_of(filename, other))
    /\ ~summed_alike(values_of(filename, field), values_of(filename, other))

\* C13, the tie between floats set apart: for every file in which some metric
\* has a nonzero deviation, most_inconsistent_metric is a declared metric whose
\* avg_deviation_percent no metric of the file exceeds, every metric declared
\* before it has a smaller one unless their tie is left to rounding errors, and
\* max_deviation is that largest deviation
C13_FirstOfLargestUpToRounding ==
    Analysed =>
        \A filename \in DOMAIN deviations.per_file :
            deviates(filename) =>
                LET entry == deviations.per_file[filename]
                    most == entry.most_inconsistent_metric
                IN  /\ most \in NumericFields
                    /\ \A field \in NumericFields :
                          ~FLess(percent_of(filename, most), percent_of(filename, field))
                    /\ \A k \in 1..num_metrics :
                          k < field_index(most) =>
                              \/ FLess(percent_of(filename, numeric_fields[k]),
                                       percent_of(filename, most))
                              \/ tie_left_to_rounding(filename, numeric_fields[k], most)
                    /\ Rounded2(percent_of(filename, most), entry.max_deviation)

\* readability and efficiency tie at 16.67: readability, declared first, is kept
C13_Witness ==
    /\ Analysed
    /\ values_of("a.py", "readability") = <<70, 50>>
    /\ values_of("a.py", "efficiency") = <<50, 70>>
    /\ percent_of("a.py", "readability") = Frac(1667, 100)
    /\ percent_of("a.py", "efficiency") = Frac(1667, 100)
    /\ deviations.per_file["a.py"].most_inconsistent_metric = "readability"
    /\ deviations.per_file["a.py"].max_deviation = Frac(50, 3)

\* the score of the metric is the same in every row of the file
same_in_every_row(filename, field) ==
    LET values == values_of(filename, field)
    IN  \A i \in 1..Len(values) : values[i] = values[1]

\* every metric of the file has avg_deviation_percent 0
all_tie_at_zero(filename) ==
    \A field \in NumericFields : percent_of(filename, field) = FromInt(0)

\* a metric with the same score in every row has avg_deviation_percent 0
\* and is not the file's most_inconsistent_metric
identical_is_zero_and_unselected(filename) ==
    \A field \in NumericFields :
        same_in_every_row(filename, field) =>
            /\ percent_of(filename, field) = FromInt(0)
            /\ deviations.per_file[filename].most_inconsistent_metric # field

\* C14, as the code computes it: a metric whose score is the same in every
\* row of a file has avg_deviation_percent 0 and is never the file's
\* most_inconsistent_metric; when all metrics of the file tie at 0 no metric
\* is selected: most_inconsistent_metric stays None and max_deviation 0
C14_IdenticalValuesUnselected ==
    Analysed =>
        \A filename \in DOMAIN deviations.per_file :
            /\ identical_is_zero_and_unselected(filename)
            /\ all_tie_at_zero(filename) =>
                  /\ deviations.per_file[filename].most_inconsistent_metric = NoMetric
                  /\ deviations.per_file[filename].max_deviation = FromInt(0)

\* C14, as stated: a metric whose score is the same in every row of a file
\* has avg_deviation_percent 0 and is not selected as most_inconsistent_metric
\* unless all metrics of the file tie at 0, and then the first-declared
\* metric is selected
C14_FirstDeclaredWhenAllTie ==
    Analysed =>
        \A filename \in DOMAIN deviations.per_file :
            IF all_tie_at_zero(filename)
            THEN deviations.per_file[filename].most_inconsistent_metric = numeric_fields[1]
            ELSE identical_is_zero_and_unselected(filename)

\* a file whose efficiency is 70 in both rows while its readability deviates,
\* and a file of one row, where every metric ties at 0
C14_Witness ==
    /\ Analysed
    /\ values_of("a.py", "efficiency") = <<70, 70>>
    /\ values_of("a.py", "readability") = <<0, 50>>
    /\ percent_of("a.py", "efficiency") = FromInt(0)
    /\ deviations.per_file["a.py"].most_inconsistent_metric = "readability"
    /\ Len(file_rows(all_results, "b.py")) = 1
    /\ all_tie_at_zero("b.py")
    /\ deviations.per_file["b.py"].most_inconsistent_metric = NoMetric

\* C15: calculate_deviations on an empty collection of rows raises nothing
\* and returns a report with an empty per_file mapping, in which
\* overall.avg_total_deviation and the avg_deviation of every metric are 0
C15_EmptyCollection ==
    pc = "done" /\ all_results = <<>> =>
        /\ deviations.raised = ""
        /\ DOMAIN deviations.per_file = {}
        /\ deviations.overall.avg_total_deviation = FromInt(0)
        /\ DOMAIN deviations.overall.metrics = NumericFields
        /\ \A field \in NumericFields :
              deviations.overall.metrics[field].avg_deviation = FromInt(0)

\* the report of no row at all
C15_Witness ==
    /\ pc = "done"
    /\ all_results = <<>>
    /\ deviations.raised = ""
    /\ deviations.file_names = <<>>
    /\ deviations.overall.total_deviation = FromInt(0)
    /\ deviations.overall.metrics["readability"].count = 0

\* every row holds every declared metric key
rows_are_complete == \A i \in 1..Len(all_results) : NumericFields \subseteq DOMAIN all_results[i]

\* C18: calculate_deviations raises nothing for rows that each hold every
\* declared metric key with an integer value; when a row lacks a declared
\* metric key the call raises KeyError to the caller and returns no report
C18_RaisesOnlyForMissingKey ==
    pc = "done" =>
        IF rows_are_complete
        THEN /\ \A i \in 1..Len(all_results) : \A field \in NumericFields :
                    all_results[i][field] \in Int
             /\ deviations.raised = ""
             /\ "per_file" \in DOMAIN deviations
        ELSE /\ deviations.raised = "KeyError"
             /\ DOMAIN deviations = {"raised"}

\* a complete row followed by a row of the same file without 'efficiency'
C18_Witness ==
    /\ pc = "done"
    /\ Len(all_results) = 2
    /\ NumericFields \subseteq DOMAIN all_results[1]
    /\ DOMAIN all_results[2] = DOMAIN all_results[1] \ {"efficiency"}
    /\ all_results[2]["filename"] = all_results[1]["filename"]
    /\ deviations.raised = "KeyError"

\* the keys of the rubric schema
SchemaKeys == {schema_mapping[k][1] : k \in 1..Len(schema_mapping)}

\* C16: whatever the response text and in both variants, the mapping
\* parse_audit_response returns has no key outside schema_mapping
C16_OnlySchemaKeys ==
    parsed # NotParsed => DOMAIN parsed.audit_data \subseteq SchemaKeys

\* v is a value of the program, not an exception
is_python_value(v) == v.t \in {"NoneType", "int", "float", "str"}

\* the answer cannot be interpreted in the mode: no phrase of the metric's
\* mapping starts it (textual), its digits and dots are no number (numerical)
uninterpretable(m, field, answer) ==
    IF m = "textual" THEN phrase_score(field, answer) = 0
    ELSE digits_and_dots(answer) = <<>> \/ ~is_decimal(digits_and_dots(answer))

\* the only line labelled for the metric has no colon, no value, or a value
\* that cannot be interpreted
malformed(m, lines, label, field) ==
    /\ Cardinality(labelled(lines, label)) = 1
    /\ has_answer(lines, label) => uninterpretable(m, field, first_answer_of(lines, label))

\* C17: whatever the response text, lines with a label and no colon, no
\* value or a value the mode cannot interpret included, _parse_audit_response
\* and parse_audit_response return a mapping of values, no exception, and
\* process_file a row; the metric of such a line is left without a key, set
\* to None or to the default 0, and is 0 in the row
C17_NoExceptionEscapes ==
    LET lines == split(response_text, "\n")
    IN  /\ pc # "received" =>
              /\ \A key \in DOMAIN audit_data \ {"model_used"} :
                    is_python_value(audit_data[key])
              /\ \A b \in MetricBranches :
                    malformed(mode, lines, section_fields[b][1], section_fields[b][2]) =>
                        /\ Get(audit_data, section_fields[b][2], PyNone) \in {PyNone, PyInt(0)}
                        /\ ~has_answer(lines, section_fields[b][1])
                               => section_fields[b][2] \notin DOMAIN audit_data
        /\ results[1] # Pending =>
              /\ results[1].result.success
              /\ \A b \in MetricBranches :
                    malformed(mode, lines, section_fields[b][1], section_fields[b][2]) =>
                        results[1].result.row[section_fields[b][2]] = 0
        /\ parsed # NotParsed =>
              /\ \A key \in DOMAIN parsed.audit_data :
                    is_python_value(parsed.audit_data[key])
              /\ \A b \in MetricBranches :
                    LET label == section_fields[b][1]
                        field == section_fields[b][2]
                    IN  /\ Cardinality(labelled(lines, label)) = 1 /\ ~has_answer(lines, label)
                               => Get(parsed.audit_data, field, PyNone) = PyNone
                        /\ mode = "numerical" /\ malformed(mode, lines, label, field)
                               => Get(parsed.audit_data, field, PyNone) = PyNone

\* the numerical answer '1.2.3', no number: None from both parsers, 0 in the row
C17_Witness ==
    /\ pc = "parsed"
    /\ mode = "numerical"
    /\ response_text = AnswerLines[13]
    /\ audit_data["error_handling"] = PyNone
    /\ results[1].result.row["error_handling"] = 0
    /\ parsed.audit_data["error_handling"] = PyNone

\* s has no parenthesis, quote or comma and is at most two words joined by
\* single spaces
is_sanitized(s) ==
    LET words == split_whitespace(s)
    IN  /\ \A i \in 1..Len(s) : s[i] \notin {"(", ")", "'", "\"", ","}
        /\ Len(words) <= 2
        /\ s = join(<<" ">>, words)

\* C19: whatever the raw domain answer, the domain parse_audit_response
\* returns and the domain column of the row process_file builds have no
\* parenthesis, quote or comma and are at most two words joined by single
\* spaces
C19_DomainIsSanitized ==
    /\ parsed # NotParsed /\ Get(parsed.audit_data, "domain", PyNone) # PyNone
           => is_sanitized(parsed.audit_data["domain"].s)
    /\ results[1] # Pending /\ results[1].result.success
           => is_sanitized(results[1].result.row["domain"])

\* the raw domain answers of the response: the text after the first colon of
\* the lines labelled for the domain
raw_domains ==
    LET lines == split(response_text, "\n")
    IN  {split_once(lines[i], ":")[2] :
            i \in {j \in 1..Len(lines) :
                      startswith(lines[j], label_of("domain")) /\ find_char(lines[j], ":") # 0}}

\* C20: sanitize_domain applied to its own result returns that result, for
\* every raw domain answer, trimmed or not, and for the domain
\* parse_audit_response returned
C20_SanitizeDomainIdempotent ==
    parsed # NotParsed =>
        /\ \A x \in raw_domains :
              /\ sanitize_domain(sanitize_domain(x)) = sanitize_domain(x)
              /\ sanitize_domain(sanitize_domain(strip(x))) = sanitize_domain(strip(x))
        /\ Get(parsed.audit_data, "domain", PyNone) # PyNone =>
              sanitize_domain(parsed.audit_data["domain"].s) = parsed.audit_data["domain"].s

\* the answer '(a (a' sanitized to 'a a', which sanitizing leaves as it is
C20_Witness ==
    /\ pc = "parsed"
    /\ response_text = OneLine("domain", <<"(", "a", " ", "(", "a">>)
    /\ raw_domains = {<<"(", "a", " ", "(", "a">>}
    /\ parsed.audit_data["domain"] = PyStr(<<"a", " ", "a">>)
    /\ sanitize_domain(<<"a", " ", "a">>) = <<"a", " ", "a">>

\* the raw answer of the schema entry labelled label: what follows the first
\* colon of the first line starting with the label, trimmed
raw_answer(lines, label) ==
    LET i == first_line_startswith(lines, label)
        parts == split_once(lines[i], ":")
    IN  IF i = 0 \/ Len(parts) < 2 THEN PyNone ELSE PyStr(strip(parts[2]))

\* the schema entries of the response whose raw answer is the string None
none_answers(text) ==
    {k \in 1..Len(schema_mapping) :
        raw_answer(split(text, "\n"), schema_mapping[k][2]) = PyStr(<<"N", "o", "n", "e">>)}

\* C21: in both variants, the count parse_audit_response returns next to the
\* mapping is the number of schema fields whose raw answer is the string None
C21_NoneCount ==
    parsed # NotParsed => parsed.none_response_count = Cardinality(none_answers(response_text))

\* the labels of the rubric schema
SchemaLabels == {schema_mapping[k][2] : k \in 1..Len(schema_mapping)}

\* the label a line carries: its leading run of digits and dots
carried_label(line) ==
    LET runs == {n \in 0..Len(line) : \A i \in 1..n : IsDigit(line[i]) \/ line[i] = "."}
    IN  SubSeq(line, 1, CHOOSE n \in runs : \A m \in runs : m <= n)

\* no two entries of a table of <<label, key>> pairs (at label_at, key_at)
\* share a label or a key
pairwise_distinct(table, label_at, key_at) ==
    \A j, k \in 1..Len(table) :
        j # k => table[j][label_at] # table[k][label_at] /\ table[j][key_at] # table[k][key_at]

\* the line parse_audit_response reads the entry k of the schema from carries
\* the label of that entry
schema_line_is_own(lines, k) ==
    LET i == first_line_startswith(lines, schema_mapping[k][2])
    IN  i # 0 /\ carried_label(lines[i]) \in SchemaLabels
            => carried_label(lines[i]) = schema_mapping[k][2]

\* the branch of the if/elif chain a line of _parse_audit_response takes is
\* that of the label the line carries
chain_line_is_own(line) ==
    LET key == strip(split_once(strip(line), ":")[1])
        b == section_branch(key)
    IN  find_char(strip(line), ":") # 0 /\ b # 0 /\ carried_label(key) \in SchemaLabels
            => carried_label(key) = section_fields[b][1]

\* C22: every schema key has one label, the labels are pairwise distinct, and
\* a line carrying a label is only read as the answer of the entry of that
\* label ('4.10.' never for '4.1.', '0.1.' never for the gate '0.'), in any
\* order of the lines
C22_LabelsUnambiguous ==
    /\ pairwise_distinct(schema_mapping, 2, 1)
    /\ pairwise_distinct(section_fields, 1, 2)
    /\ parsed # NotParsed =>
          LET lines == split(response_text, "\n")
          IN  /\ \A k \in 1..Len(schema_mapping) : schema_line_is_own(lines, k)
              /\ \A i \in 1..Len(lines) : chain_line_is_own(lines[i])


\* C29: for every mapping parse_audit_response of an auditor returns, also
\* for a response without gate line, is_audit_data_valid of that auditor
\* returns a boolean and raises nothing
C29_ValidityIsBoolean ==
    is_valid # NotValidated => is_valid.t = "bool"

\* rows with the rows i and j exchanged
swapped(rows, i, j) ==
    [k \in 1..Len(rows) |-> IF k = i THEN rows[j] ELSE IF k = j THEN rows[i] ELSE rows[k]]

\* the numbers of a report apart from values_per_cycle: per file and metric
\* the mean, min, max, range and avg_deviation_percent, per file the
\* avg_total_deviation, and the overall averages
values_view(report) ==
    IF report.raised # "" THEN [raised |-> report.raised]
    ELSE [raised |-> "",
          per_file |->
              [filename \in DOMAIN report.per_file |->
                  LET entry == report.per_file[filename]
                  IN  [metrics |->
                          [field \in NumericFields |->
                              LET info == entry.metrics[field]
                              IN  <<info.mean, info.min, info.max, info.range,
                                    info.avg_deviation_percent>>],
                       avg_total_deviation |-> entry.avg_total_deviation]],
          overall |->
              [field \in NumericFields |-> report.overall.metrics[field].avg_deviation],
          avg_total_deviation |-> report.overall.avg_total_deviation]

\* the most_inconsistent_metric of every file of a report
most_inconsistent(report) ==
    IF report.raised # "" THEN <<>>
    ELSE [filename \in DOMAIN report.per_file |->
             report.per_file[filename].most_inconsistent_metric]

\* what the two reports say apart from values_per_cycle is the same
same_but_values_per_cycle(report, other) ==
    /\ values_view(report) = values_view(other)
    /\ most_inconsistent(report) = most_inconsistent(other)

\* the two reports select the same metric for every file, or two metrics
\* whose deviations are exactly equal
same_or_tied_metrics(report, other) ==
    \A filename \in DOMAIN most_inconsistent(report) :
        LET most == most_inconsistent(report)[filename]
            others_most == most_inconsistent(other)[filename]
        IN  \/ most = others_most
            \/ /\ most # NoMetric
               /\ others_most # NoMetric
               /\ avg_deviation_of(values_of(filename, most))
                      = avg_deviation_of(values_of(filename, others_most))

\* the exchange changes the order in which some float sum of the report adds
\* its terms: the values of a metric of a file, or the files
changes_summation(rows, others) ==
    \/ ~summed_alike(file_order(rows, <<>>), file_order(others, <<>>))
    \/ \E filename \in {rows[k]["filename"] : k \in 1..Len(rows)} :
          \E field \in NumericFields :
              ~summed_alike(metric_values(file_rows(rows, filename), field),
                            metric_values(file_rows(others, filename), field))

\* C30: the report of the same rows in another order (two rows exchanged) is
\* the same but for values_per_cycle, whichever way the floats of the new
\* order round when the exchange changes the order of a sum
C30_OrderInsensitive ==
    deviations # NotComputed =>
        \A i \in 1..Len(all_results) : \A j \in (i + 1)..Len(all_results) :
            LET others == swapped(all_results, i, j)
            IN  IF changes_summation(all_results, others)
                THEN \A ties_up \in BOOLEAN :
                        same_but_values_per_cycle(calculate_deviations(others, ties_up),
                                                  deviations)
                ELSE \E ties_up \in BOOLEAN :
                        same_but_values_per_cycle(calculate_deviations(others, ties_up),
                                                  deviations)

\* the names of the samples, in alphabetical order
SampleNames == <<code_files[1].name, code_files[2].name, another_sample.name>>

\* a number that orders rows by file, then by readability, then by efficiency
row_key(row) ==
    (CHOOSE k \in 1..Len(SampleNames) : SampleNames[k] = row["filename"]) * 1000000
    + row["readability"] * 1000
    + (IF "efficiency" \in DOMAIN row THEN row["efficiency"] + 1 ELSE 0)

\* the same rows in the order of their keys, rows of equal keys in the order
\* they have in rows: the one order every ordering of the rows sorts to
sorted_rows(rows) ==
    LET n == Len(rows)
        order == CHOOSE p \in [1..n -> 1..n] :
                     \A i, j \in 1..n :
                         i < j => \/ row_key(rows[p[i]]) < row_key(rows[p[j]])
                                  \/ /\ row_key(rows[p[i]]) = row_key(rows[p[j]])
                                     /\ p[i] < p[j]
    IN  [k \in 1..n |-> rows[order[k]]]

\* the report of others has the numbers of the report of the run when the
\* floats at an exact rounding tie round the same way, and selects for every
\* file the same most_inconsistent_metric or one whose deviation is exactly
\* equal
agree_up_to_rounding(others) ==
    LET up == calculate_deviations(others, TRUE)
        down == calculate_deviations(others, FALSE)
    IN  /\ \/ values_view(up) = values_view(deviations)
           \/ values_view(down) = values_view(deviations)
        /\ same_or_tied_metrics(up, deviations)
        /\ same_or_tied_metrics(down, deviations)

\* C30, the rounding of floats set apart: the report of the rows in any order
\* agrees with the report of the same rows in sorted order, hence with the
\* report of any other order of them, but for values_per_cycle and up to the
\* rounding of floats; for the collections given at the start the same is
\* compared for every exchange of two rows
C30_OrderInsensitiveUpToRounding ==
    deviations # NotComputed =>
        /\ agree_up_to_rounding(sorted_rows(all_results))
        /\ all_results \in EarlierRows =>
               \A i \in 1..Len(all_results) : \A j \in (i + 1)..Len(all_results) :
                   agree_up_to_rounding(swapped(all_results, i, j))

\* the three cycles of TiedRows with the first and the last exchanged:
\* readability 25, 25, 0 becomes 0, 25, 25
C30_Witness ==
    /\ pc = "done"
    /\ all_results = TiedRows
    /\ changes_summation(all_results, swapped(all_results, 1, 3))
    /\ deviations.per_file["a.py"].most_inconsistent_metric = "efficiency"
    /\ \E ties_up \in BOOLEAN :
          calculate_deviations(swapped(all_results, 1, 3), ties_up)
              .per_file["a.py"].most_inconsistent_metric = "readability"

\* every call of the cycle has returned or raised
calls_ended == \A c \in DOMAIN calls : calls[c].pc \in {"returned", "raised"}

\* the free slots and the requests in flight add up to the slots of the
\* semaphore: a slot is held by a request in flight and by nothing else
slots_accounted == semaphore + Cardinality(in_flight(calls)) = MAX_CONCURRENT

\* C23: at every moment at most MAX_CONCURRENT API requests of the auditor are
\* in flight, whatever the number of files of the cycle, retries included and
\* for both backends
C23_AtMostMaxConcurrent ==
    /\ Cardinality(in_flight(calls)) <= MAX_CONCURRENT
    /\ semaphore >= 0

\* more calls than slots: five requests in flight, one of them a retry, and a
\* call waiting for a slot
C23_Witness ==
    /\ Len(calls) > MAX_CONCURRENT
    /\ Cardinality(in_flight(calls)) = MAX_CONCURRENT
    /\ locked(semaphore)
    /\ \E c \in in_flight(calls) : calls[c].attempt > 0
    /\ \E c \in DOMAIN calls : calls[c].pc = "acquire"

\* C27: every slot taken for an API request is given back when the request
\* ends, with an answer or a failure, and a call sleeping before a retry holds
\* none; so, every request ending, every audit_content call of the cycle
\* eventually returns or raises, for more calls than slots
C27_SlotsReleasedAndCallsEnd ==
    /\ [](slots_accounted)
    /\ <>[](calls_ended /\ semaphore = MAX_CONCURRENT)

\* six calls over five slots have all ended, one of them by raising after
\* three failed requests and two sleeps, and every slot is free again
C27_Witness ==
    /\ Len(calls) > MAX_CONCURRENT
    /\ calls_ended
    /\ semaphore = MAX_CONCURRENT
    /\ \E c \in DOMAIN calls : calls[c].pc = "raised" /\ calls[c].attempt = MAX_RETRIES

\* the place of a row's file in code_files
code_index(row) == CHOOSE f \in FileIds : code_files[f].name = row["filename"]

\* rows in non-decreasing cycle order and, within a cycle, in the order of
\* code_files
in_run_order(rows) ==
    \A i, j \in 1..Len(rows) :
        i < j =>
            \/ rows[i]["cycle"] < rows[j]["cycle"]
            \/ /\ rows[i]["cycle"] = rows[j]["cycle"]
               /\ code_index(rows[i]) < code_index(rows[j])

\* while a cycle runs, the stored rows are those of earlier cycles and the
\* rows the tasks returned are those of the running cycle
rows_of_earlier_cycles ==
    pc = "cycle" =>
        /\ \A i \in 1..Len(all_results) : all_results[i]["cycle"] < cycle
        /\ \A f \in FileIds :
               results[f] # Pending /\ results[f].result.success =>
                   results[f].result.row["cycle"] = cycle

\* the run goes to the next cycle only when every task of the cycle has
\* ended, its call returned or raised, and the tasks of the next cycle start
\* from the beginning
next_cycle_after_all_ended ==
    cycle' # cycle =>
        /\ cycle' = cycle + 1
        /\ gathered(results)
        /\ calls_ended
        /\ \A f \in FileIds : calls'[f] = call_started /\ results'[f] = Pending

\* C24: cycles run one after another: no file of cycle k+1 starts being
\* audited before every file of cycle k has finished, with a row or with its
\* retries exhausted, so the rows of the CSV and of all_results are in
\* non-decreasing cycle order and, within a cycle, in the order of code_files
C24_CyclesInSequence ==
    /\ [](in_run_order(all_results) /\ in_run_order(csv_rows) /\ rows_of_earlier_cycles)
    /\ [][next_cycle_after_all_ended]_vars

\* both files gave a row in the first cycle and rows of the second cycle
\* follow them
C24_Witness ==
    /\ pc = "analysis"
    /\ Len(all_results) >= 3
    /\ all_results[1]["cycle"] = 1 /\ all_results[2]["cycle"] = 1
    /\ all_results[1]["filename"] = "a.py" /\ all_results[2]["filename"] = "b.py"
    /\ all_results[Len(all_results)]["cycle"] = 2

\* the API attempts a call has made: the failed ones and the one in flight
\* or answered
attempts_made(call) ==
    call.attempt + (IF call.pc \in {"call", "returned"} THEN 1 ELSE 0)

\* the value of model_used for the auditor's model number
model_used_tag == IF model_number = 1 THEN "anthropic" ELSE "openai"

\* a call makes at most MAX_RETRIES attempts and has raised exactly when
\* MAX_RETRIES of them failed
attempts_bounded ==
    \A c \in DOMAIN calls :
        /\ attempts_made(calls[c]) <= MAX_RETRIES
        /\ calls[c].pc = "raised" <=> calls[c].attempt = MAX_RETRIES

\* process_file returns no row for a call that raised and a row tagged with
\* the model for a call that returned
row_iff_returned ==
    \A f \in FileIds \cap DOMAIN calls :
        results[f] # Pending =>
            IF calls[f].pc = "raised"
            THEN results[f].result = [success |-> FALSE, row |-> EmptyDict]
            ELSE /\ calls[f].pc = "returned"
                 /\ results[f].result.success
                 /\ results[f].result.row["model_used"] = model_used_tag
                 /\ results[f].result.row["filename"] = code_files[f].name

\* a call that returned or raised makes no further step
ended_call_is_over ==
    \A c \in DOMAIN calls \cap DOMAIN calls' :
        calls[c].pc \in {"returned", "raised"} /\ cycle' = cycle => calls'[c] = calls[c]

\* the rows a cycle adds are the rows of the files whose call returned
returned_files_give_rows ==
    all_results' # all_results =>
        LET returned == {f \in FileIds : calls[f].pc = "returned"}
            added == SubSeq(all_results', Len(all_results) + 1, Len(all_results'))
        IN  /\ Len(added) = Cardinality(returned)
            /\ \A f \in returned :
                   \E i \in 1..Len(added) : added[i] = results[f].result.row

\* C25: audit_content makes at most MAX_RETRIES API attempts per call, none
\* after the first successful one, whose parsed result it returns tagged with
\* model_used, and raises RuntimeError once all of them failed; process_file
\* then gives no row for that file and cycle, and the other files of the cycle
\* still give theirs
C25_RetriesThenRaise ==
    /\ [](attempts_bounded /\ row_iff_returned)
    /\ [][ended_call_is_over /\ returned_files_give_rows]_vars

\* the call for a.py raised after three failures in the first cycle, and the
\* only row of that cycle is the one of b.py
C25_Witness ==
    /\ pc = "cycle"
    /\ cycle = 2
    /\ Len(all_results) = 1
    /\ all_results[1]["filename"] = "b.py"
    /\ all_results[1]["cycle"] = 1

\* the run has not been interrupted
uninterrupted == pc \in {"cycle", "analysis", "summary", "done"}

\* no two rows have the same file and cycle
one_row_per_file_and_cycle ==
    \A i, j \in 1..Len(all_results) :
        i # j => \/ all_results[i]["filename"] # all_results[j]["filename"]
                 \/ all_results[i]["cycle"] # all_results[j]["cycle"]

\* the CSV holds the rows of all_results, column by column, in the same order
csv_has_the_rows ==
    /\ Len(csv_rows) = Len(all_results)
    /\ \A i \in 1..Len(all_results) :
           /\ DOMAIN csv_rows[i] = DOMAIN all_results[i]
           /\ \A field \in DOMAIN all_results[i] : csv_rows[i][field] = all_results[i][field]

\* every cycle has run and the rows of the last one are stored
all_cycles_collected ==
    /\ cycle = NumCycles
    /\ gathered(results)
    /\ \A f \in FileIds :
           results[f].result.success =>
               \E i \in 1..Len(all_results) : all_results[i] = results[f].result.row

\* a report exists only once the analysis has run, over the rows of all the
\* cycles
report_after_all_cycles ==
    uninterrupted /\ deviations # NotComputed =>
        /\ pc \in {"summary", "done"}
        /\ all_cycles_collected
        /\ \E ties_up \in BOOLEAN : deviations = calculate_deviations(all_results, ties_up)

\* the stored rows are never changed or removed, and outside the handler of
\* an interrupt the report is assigned by the analysis alone, once
rows_kept_and_report_once ==
    /\ Len(all_results') >= Len(all_results)
    /\ SubSeq(all_results', 1, Len(all_results)) = all_results
    /\ SubSeq(csv_rows', 1, Len(csv_rows)) = csv_rows
    /\ deviations' # deviations /\ pc # "handler" =>
           pc = "analysis" /\ deviations = NotComputed

\* C26: in a run that is not interrupted, at most one row is produced for each
\* file and cycle, the CSV and all_results receive the same rows in the same
\* order, and the deviation report is computed once, only after the rows of
\* all cycles have been collected
C26_RowsOnceReportOnce ==
    /\ [](one_row_per_file_and_cycle /\ csv_has_the_rows /\ report_after_all_cycles)
    /\ [][rows_kept_and_report_once]_vars

\* the run ended with a row for every file of every cycle and a report
C26_Witness ==
    /\ pc = "done"
    /\ Len(all_results) = NumCycles * Len(code_files)
    /\ Len(csv_rows) = Len(all_results)
    /\ deviations # NotComputed

\* C28: when the run is interrupted after at least one row has been collected,
\* the handler computes the deviation analysis of the rows collected so far
\* and saves it to the deviation file of the run
C28_InterruptSavesReport ==
    pc = "interrupted" /\ Len(all_results) > 0 =>
        /\ deviations # NotComputed
        /\ deviation_file = [assigned |-> TRUE, content |-> deviations]
====
